---- MODULE Spec2Model ----
(***************************************************************************)
(* The game core of the chess backend: GameService.create_game, make_move  *)
(* and undo_move (backend/app/services/game_service.py) over the games and *)
(* sessions tables (backend/app/models/game.py), with the parts of         *)
(* ChessEngine they call (backend/app/services/chess_engine.py).           *)
(*                                                                         *)
(* python-chess is an external library.  Its Board is modelled by a small  *)
(* game with the same interface: a position graph with legal moves, a side *)
(* to move, the two move clocks and the move stack that is_repetition      *)
(* walks.  board.fen() serialises everything except the stack and          *)
(* chess.Board(fen) parses into a board with an empty stack.               *)
(*                                                                         *)
(* The model follows one game (id 1): every query of the service filters   *)
(* on the game id, so rows of other games are disjoint from it.            *)
(*                                                                         *)
(* Specifications: Spec (the three requests as whole handlers, from empty  *)
(* tables), SpecLong (a game near the halfmove limit), SpecSteps (make_move*)
(* commit by commit, with the request stopping in between), SpecFaults     *)
(* (create_game under the recovery wrapper with failing commits),          *)
(* SpecCorrupt (a session row damaged from outside), SpecPuzzle            *)
(* (PuzzleService.attempt_puzzle over the puzzles and user_puzzles tables, *)
(* backend/app/services/puzzle_service.py), SpecStats (get_user_stats over *)
(* drawn tables), SpecRace (_update_user_stats of two requests at once),   *)
(* SpecConc (make_move and undo_move of two requests at once), SpecSched   *)
(* (the scheduler's task lock, backend/app/utils/lock.py and               *)
(* backend/app/services/scheduler.py), SpecLoop and SpecLoopFair (the      *)
(* scheduler loop and register_task, without and with fairness of the loop *)
(* thread) and SpecRetry (one call under retry_on_failure,                 *)
(* backend/app/utils/retry.py).                                            *)
(***************************************************************************)
EXTENDS Integers, Sequences, FiniteSets, TLC

VARIABLES games, sessions, last, pc, puzzles, user_puzzles, reqs, sched

vars == <<games, sessions, last, pc, puzzles, user_puzzles, reqs, sched>>

\* games, sessions, puzzles, user_puzzles: the tables.  pc: the make_move
\* request in flight (SpecSteps) or the retry wrapper in flight
\* (SpecRetry).  last: the last request and its answer.  reqs: the requests
\* served at once, each with what it has loaded (SpecRace, SpecConc).
\* sched: the lock file, the FileLock objects and the runs of the scheduled
\* task (SpecSched), or the task list and the position of the scheduler
\* loop (SpecLoop).

\* Optional values (Python None / a value).
None == <<>>
Some(x) == <<x>>
Get(o) == o[1]

\* ------------------------------------------------------------------------
\* Program constants and model bounds

\* chess_engine.py:237  halfmove_clock >= 150
HalfmoveLimit == 150
\* chess_engine.py:233  is_repetition(count=3)
RepetitionCount == 3
\* config.py:52  RetryConfig.max_attempts default
MaxAttempts == 3
\* config.py:107  RecoveryConfig.max_retries default
MaxRetries == 5
\* api/games.py:148  status.HTTP_400_BAD_REQUEST
HTTP_400_BAD_REQUEST == 400
\* api/games.py:122  the status code of a returned response
HTTP_200_OK == 200
\* largest num_moves passed to undo_move in the model
MaxCount == 4
\* Spec: make_move requests arrive while the log is shorter than this
MaxLog == 8
\* SpecLong: length of the log the long game starts from
LongBase == 144
\* SpecCorrupt: longest stored log the damaged stores start from
MaxCorruptLog == 3
\* SpecPuzzle: longest solution of a stored puzzle
MaxSolution == 2
\* SpecPuzzle: number of attempts followed on the puzzle
MaxPuzzleAttempts == 2
\* SpecStats: largest solved counter of a statistic row
MaxStat == 2
\* SpecRace: recorded attempts made by each of the two requests
MaxRaceAttempts == 2
\* SpecConc: requests started in all
MaxConcRequests == 3
\* SpecSched: runs of the task started in all
MaxSchedRuns == 4

\* ------------------------------------------------------------------------
\* python-chess: colours, positions, moves

WHITE == TRUE
BLACK == FALSE

\* The game graph.  zeroing: the move is a pawn move or a capture
\* (resets the halfmove clock and is irreversible).
Edges ==
  { [from |-> "start",    uci |-> "g1f3", to |-> "Nf3",      zeroing |-> FALSE],
    [from |-> "Nf3",      uci |-> "g8f6", to |-> "Nf3Nf6",   zeroing |-> FALSE],
    [from |-> "Nf3Nf6",   uci |-> "f3g1", to |-> "Nf6",      zeroing |-> FALSE],
    [from |-> "Nf6",      uci |-> "f6g8", to |-> "start",    zeroing |-> FALSE],
    [from |-> "Nf3",      uci |-> "d8h4", to |-> "mateOnW",  zeroing |-> FALSE],
    [from |-> "Nf3Nf6",   uci |-> "d1h5", to |-> "mateOnB",  zeroing |-> FALSE],
    [from |-> "start",    uci |-> "e2e4", to |-> "e4",       zeroing |-> TRUE],
    [from |-> "e4",       uci |-> "e7e5", to |-> "e4e5",     zeroing |-> TRUE],
    [from |-> "e4",       uci |-> "d7d5", to |-> "e4_d5",    zeroing |-> TRUE],
    [from |-> "e4e5",     uci |-> "f1c4", to |-> "staleOnB", zeroing |-> FALSE],
    [from |-> "e4e5",     uci |-> "d1f3", to |-> "e4e5Qf3",  zeroing |-> FALSE],
    [from |-> "e4e5Qf3",  uci |-> "d8f6", to |-> "staleOnW", zeroing |-> FALSE],
    [from |-> "e4_d5",    uci |-> "e4d5", to |-> "bareKings", zeroing |-> TRUE],
    [from |-> "bareKings", uci |-> "e8d8", to |-> "bareKingsKd8", zeroing |-> FALSE] }

\* Positions where the side to move is in check.
CheckNodes == {"mateOnW", "mateOnB"}
\* Positions where neither side can mate.
InsufficientNodes == {"bareKings", "bareKingsKd8"}

\* Strings chess.Move.from_uci accepts: the moves of the graph, a move that
\* is legal nowhere, and the null move.
WellFormedUci == {e.uci : e \in Edges} \cup {"e2e5", "0000"}
\* Strings chess.Move.from_uci rejects with ValueError.
MalformedUci == {"e2"}
MoveInputs == WellFormedUci \cup MalformedUci

\* chess.Move.from_uci: the move, or None for ValueError.
FromUci(uci) == IF uci \in WellFormedUci THEN Some(uci) ELSE None

\* chess.Board()
StartingBoard ==
  [node |-> "start", turn |-> WHITE, halfmove_clock |-> 0,
   fullmove_number |-> 1, stack |-> <<>>]

\* board.legal_moves
LegalMoves(board) == {e.uci : e \in {x \in Edges : x.from = board.node}}

\* (variant: the move is looked up without regard to the position)
IsLegalAnywhere(board, move) == move \in {e.uci : e \in Edges}

\* move in board.legal_moves
IsLegal(board, move) == move \in LegalMoves(board)

\* board.push(move): python-chess does not check legality; a move that is
\* not legal leaves the book of the graph.
Push(board, move) ==
  LET es == {x \in Edges : x.from = board.node /\ x.uci = move}
      legal == es /= {}
      e == CHOOSE x \in es : TRUE
      zeroing == legal /\ e.zeroing
  IN [node |-> IF legal THEN e.to ELSE "offbook",
      turn |-> ~board.turn,
      halfmove_clock |-> IF zeroing THEN 0 ELSE board.halfmove_clock + 1,
      fullmove_number |-> IF board.turn = BLACK THEN board.fullmove_number + 1
                          ELSE board.fullmove_number,
      stack |-> Append(board.stack,
                       [key |-> <<board.node, board.turn>>,
                        irreversible |-> zeroing])]

\* board.fen(): placement, side to move and clocks; the stack is not part
\* of the encoding.
Fen(board) ==
  <<board.node, board.turn, board.halfmove_clock, board.fullmove_number>>

\* chess.Board(fen): a board with an empty move stack.  (The encoding of a
\* position off the book parses as any other; no move of the book is legal
\* there.)
IsValidFen(fen) ==
  /\ Len(fen) = 4
  /\ fen[1] \in {e.from : e \in Edges} \cup {e.to : e \in Edges}
                \cup {"offbook"}
  /\ fen[2] \in BOOLEAN
  /\ fen[3] \in Nat
  /\ fen[4] \in Nat \ {0}

ParseFen(fen) ==
  [node |-> fen[1], turn |-> fen[2], halfmove_clock |-> fen[3],
   fullmove_number |-> fen[4], stack |-> <<>>]

IsCheckmate(board) == board.node \in CheckNodes /\ LegalMoves(board) = {}
IsStalemate(board) == board.node \notin CheckNodes /\ LegalMoves(board) = {}
IsInsufficientMaterial(board) == board.node \in InsufficientNodes

\* board.is_repetition(count): pops the move stack while the moves are
\* reversible and counts the earlier positions equal to the current one.
RECURSIVE RepetitionScan(_, _, _)
RepetitionScan(stack, key, count) ==
  IF count <= 1 THEN TRUE
  ELSE IF Len(stack) < count - 1 THEN FALSE
  ELSE LET top == stack[Len(stack)]
           rest == SubSeq(stack, 1, Len(stack) - 1)
       IN IF top.irreversible THEN FALSE
          ELSE RepetitionScan(rest, key,
                              IF top.key = key THEN count - 1 ELSE count)

IsRepetition(board, count) ==
  RepetitionScan(board.stack, <<board.node, board.turn>>, count)

\* ------------------------------------------------------------------------
\* ChessEngine

\* (variant: the winner is read off the wrong side)
GetGameResultSwapped(board) ==
  IF IsCheckmate(board)
    THEN Some(IF board.turn = WHITE THEN "white_won" ELSE "black_won")
  ELSE IF IsStalemate(board) THEN Some("draw")
  ELSE IF IsInsufficientMaterial(board) THEN Some("draw")
  ELSE IF IsRepetition(board, RepetitionCount) THEN Some("draw")
  ELSE IF board.halfmove_clock >= HalfmoveLimit THEN Some("draw")
  ELSE None

\* get_game_result: "white_won", "black_won", "draw" or None.
GetGameResult(board) ==
  IF IsCheckmate(board)
    THEN Some(IF board.turn = WHITE THEN "black_won" ELSE "white_won")
  ELSE IF IsStalemate(board) THEN Some("draw")
  ELSE IF IsInsufficientMaterial(board) THEN Some("draw")
  ELSE IF IsRepetition(board, RepetitionCount) THEN Some("draw")
  ELSE IF board.halfmove_clock >= HalfmoveLimit THEN Some("draw")
  ELSE None

\* What the engine process does when asked: `fails` calls raise EngineError
\* or OSError, then the call number fails+1 ends as `final` says.
EngineAnswers ==
  { [fails |-> f, final |-> k] :
      f \in 0 .. (MaxAttempts - 1), k \in {"move", "none", "other_error"} }
  \cup { [fails |-> MaxAttempts, final |-> "engine_error"] }

\* (variant: the retry loop makes one call more than max_attempts)
GetBestMoveOneMore(board, eng, pick) ==
  IF eng.fails >= MaxAttempts
    THEN [calls |-> MaxAttempts + 1, raised |-> TRUE, move |-> None]
  ELSE IF eng.final = "other_error"
    THEN [calls |-> eng.fails + 1, raised |-> TRUE, move |-> None]
  ELSE IF eng.final = "none" \/ LegalMoves(board) = {}
    THEN [calls |-> eng.fails + 1, raised |-> FALSE, move |-> None]
  ELSE [calls |-> eng.fails + 1, raised |-> FALSE, move |-> Some(pick)]

\* retry_on_failure around get_best_move: the number of calls made and the
\* outcome: a move, None, or an exception raised to the caller.
GetBestMove(board, eng, pick) ==
  IF eng.fails >= MaxAttempts
    THEN [calls |-> MaxAttempts, raised |-> TRUE, move |-> None]
  ELSE IF eng.final = "other_error"
    THEN [calls |-> eng.fails + 1, raised |-> TRUE, move |-> None]
  ELSE IF eng.final = "none" \/ LegalMoves(board) = {}
    THEN [calls |-> eng.fails + 1, raised |-> FALSE, move |-> None]
  ELSE [calls |-> eng.fails + 1, raised |-> FALSE, move |-> Some(pick)]

\* ------------------------------------------------------------------------
\* Tables (backend/app/models/game.py)

IN_PROGRESS == "in_progress"
WHITE_WON == "white_won"
BLACK_WON == "black_won"
DRAW == "draw"
ABANDONED == "abandoned"
GameStatus == {IN_PROGRESS, WHITE_WON, BLACK_WON, DRAW, ABANDONED}

\* The value datetime.now() stores.
Now == "now"

\* json.dumps / json.loads of a list of strings (the move_history column
\* holds text).
JsonDumps(list) == <<"json", list>>
JsonLoads(text) == text[2]

\* db.query(Game).filter(Game.id == game_id).first()
GetGame(game_id) ==
  LET rows == {i \in 1 .. Len(games) : games[i].id = game_id}
  IN IF rows = {} THEN None
     ELSE Some(CHOOSE i \in rows : \A j \in rows : i <= j)

\* db.query(GameSession).filter(game_id).order_by(created_at.desc()).first()
GetGameSession(game_id) ==
  LET rows == {i \in 1 .. Len(sessions) : sessions[i].game_id = game_id}
  IN IF rows = {} THEN None
     ELSE Some(CHOOSE i \in rows : \A j \in rows : i >= j)

\* ------------------------------------------------------------------------
\* GameService helpers

\* (variant: only an abandoned game is refused)
OnlyAbandoned(game) == game.status = ABANDONED

\* game.status != GameStatus.IN_PROGRESS
NotInProgress(game) == game.status /= IN_PROGRESS

\* (variant: the position column is not written)
SessionWithStaleFen(session, new_fen, move_history) ==
  [session EXCEPT !.move_history = JsonDumps(move_history)]

\* session.current_fen = new_fen; session.move_history = json.dumps(...)
SessionWith(session, new_fen, move_history) ==
  [session EXCEPT !.current_fen = new_fen,
                  !.move_history = JsonDumps(move_history)]

\* _generate_pgn: the loop over move_history[lo..hi]; a logged move that is
\* legal on temp_board is pushed and added to the main line, any other is
\* skipped.  (The range is folded by halves to keep the evaluation shallow;
\* the main line never holds lo moves before move lo is looked at, and the
\* test on it makes TLC evaluate acc before it descends.)
RECURSIVE PgnLoop(_, _, _, _)
PgnLoop(acc, move_history, lo, hi) ==
  IF lo > hi \/ Len(acc.mainline) >= lo THEN acc
  ELSE IF lo = hi
    THEN IF IsLegal(acc.temp_board, move_history[lo])
           THEN [temp_board |-> Push(acc.temp_board, move_history[lo]),
                 mainline |-> Append(acc.mainline, move_history[lo])]
           ELSE acc
  ELSE PgnLoop(PgnLoop(acc, move_history, lo, (lo + hi) \div 2),
               move_history, ((lo + hi) \div 2) + 1, hi)

GeneratePgn(move_history) ==
  PgnLoop([temp_board |-> StartingBoard, mainline |-> <<>>],
          move_history, 1, Len(move_history)).mainline

\* (variant: a game that ends without a winner is abandoned)
EndStatusAbandoned(game_result) ==
  IF game_result = "white_won" THEN WHITE_WON
  ELSE IF game_result = "black_won" THEN BLACK_WON
  ELSE ABANDONED

\* Lines 163-168 and 202-207: the status for a result.
EndStatus(game_result) ==
  IF game_result = "white_won" THEN WHITE_WON
  ELSE IF game_result = "black_won" THEN BLACK_WON
  ELSE DRAW

\* (variant: the end timestamp is not written)
EndGameNoTimestamp(game, game_result, move_history) ==
  [game EXCEPT
     !.status = EndStatus(game_result),
     !.pgn = Some(GeneratePgn(move_history))]

\* The game row after a result was found: status, ended_at and pgn.
EndGame(game, game_result, move_history) ==
  [game EXCEPT
     !.status = EndStatus(game_result),
     !.ended_at = Some(Now),
     !.pgn = Some(GeneratePgn(move_history))]

\* (variant: the bot answers in every game)
IsBotTurnAnyGame(game, board) == board.turn = BLACK

\* game.black_player_id is None and not board.turn
IsBotTurn(game, board) == game.black_player_id = None /\ board.turn = BLACK

\* (variant: the result is not looked at after the bot's move)
NoResultAfterBotMove(board) == None

\* game_result = self.engine.get_game_result(board) after the bot's move.
ResultAfterBotMove(board) == GetGameResult(board)

\* (variant: the slice keeps one move too many)
DropLastOffByOne(move_history, num_moves) ==
  LET n == Len(move_history)
  IN IF num_moves > 0
       THEN SubSeq(move_history, 1,
                   IF n > num_moves - 1 THEN n - (num_moves - 1) ELSE 0)
     ELSE IF num_moves = 0 THEN <<>>
     ELSE SubSeq(move_history, 1, IF 0 - num_moves < n THEN 0 - num_moves ELSE n)

\* move_history[:-num_moves] (Python slice semantics).
DropLast(move_history, num_moves) ==
  LET n == Len(move_history)
  IN IF num_moves > 0
       THEN SubSeq(move_history, 1, IF n > num_moves THEN n - num_moves ELSE 0)
     ELSE IF num_moves = 0 THEN <<>>
     ELSE SubSeq(move_history, 1, IF 0 - num_moves < n THEN 0 - num_moves ELSE n)

\* The replay loop of undo_move over moves[lo..hi]: the board after pushing
\* every move, or None when a move string does not parse (ValueError).
\* (The range is folded by halves to keep the evaluation shallow.)
RECURSIVE ReplayLoop(_, _, _, _)
ReplayLoop(board, moves, lo, hi) ==
  IF board = None \/ lo > hi THEN board
  ELSE IF lo = hi
    THEN IF FromUci(moves[lo]) = None THEN None
         ELSE Some(Push(Get(board), Get(FromUci(moves[lo]))))
  ELSE ReplayLoop(ReplayLoop(board, moves, lo, (lo + hi) \div 2),
                  moves, ((lo + hi) \div 2) + 1, hi)

ReplayFrom(board, moves) == ReplayLoop(Some(board), moves, 1, Len(moves))

\* (variant: the final record is kept)
UndoGameKeepsPgn(game) ==
  IF game.status /= IN_PROGRESS
    THEN [game EXCEPT !.status = IN_PROGRESS, !.ended_at = None]
    ELSE game

\* The game row after an undo.
UndoGame(game) ==
  IF game.status /= IN_PROGRESS
    THEN [game EXCEPT !.status = IN_PROGRESS, !.ended_at = None, !.pgn = None]
    ELSE game

\* ------------------------------------------------------------------------
\* The last request: its arguments, the status it found the game in, and
\* what it returned.

\* The engine was not asked.
NoEngine == [fails |-> 0, final |-> "not_asked"]

Result(op, game_id, move, count, eng, success, message, new_fen, bot_move, calls) ==
  [op |-> op, game_id |-> game_id, move |-> move, count |-> count,
   prior_status |-> IF GetGame(game_id) = None THEN ""
                    ELSE games[Get(GetGame(game_id))].status,
   engine |-> eng, success |-> success, message |-> message,
   new_fen |-> new_fen, bot_move |-> bot_move, engine_calls |-> calls]

\* No request is in flight.
Idle ==
  [stage |-> "idle", game_id |-> 0, move_uci |-> "", gi |-> 0, si |-> 0,
   board |-> StartingBoard, move_history |-> <<>>, new_fen |-> None,
   bot_move |-> None, engine |-> NoEngine, engine_calls |-> 0]

\* No request is served step by step, and no scheduler runs.
NoRequests == << >>
NoScheduler == << >>

Init ==
  /\ games = <<>>
  /\ sessions = <<>>
  /\ last = Result("init", 0, "", 0, NoEngine, TRUE, "", None, None, 0)
  /\ pc = Idle
  /\ reqs = NoRequests /\ sched = NoScheduler
  /\ puzzles = <<>>
  /\ user_puzzles = <<>>

\* ------------------------------------------------------------------------
\* create_game

GameIds == {1}
WhitePlayerIds == {None, Some(7)}
BlackPlayerIds == {None, Some(8)}

\* (variant: the session starts one move in)
NewSessionMoved(game_id) ==
  [game_id |-> game_id, current_fen |-> Fen(Push(StartingBoard, "e2e4")),
   move_history |-> JsonDumps(<<>>)]

\* Lines 55-60: GameSession(game_id, current_fen=chess.Board().fen(),
\* move_history="[]")
NewSession(game_id) ==
  [game_id |-> game_id, current_fen |-> Fen(StartingBoard),
   move_history |-> JsonDumps(<<>>)]

\* Lines 45-49: Game(white_player_id, black_player_id, status=IN_PROGRESS);
\* the columns pgn and ended_at are nullable and not set.
NewGame(id, white_player_id, black_player_id) ==
  [id |-> id, white_player_id |-> white_player_id,
   black_player_id |-> black_player_id, pgn |-> None,
   status |-> IN_PROGRESS, ended_at |-> None]

\* (the service does not look at is_bot_game; the model follows the first
\* game created)
CreateGame(white_player_id, black_player_id, is_bot_game) ==
  /\ games = <<>>
  /\ LET id == Len(games) + 1
     IN /\ games' = Append(games, NewGame(id, white_player_id, black_player_id))
        /\ sessions' = Append(sessions, NewSession(id))
        /\ last' = Result("create_game", id, "", 0, NoEngine, TRUE, "",
                          None, None, 0)
        /\ UNCHANGED <<pc, puzzles, user_puzzles, reqs, sched>>

\* The HTTP endpoint POST /games (api/games.py lines 45-63): a bot game is
\* created without a black player.
CreateGameEndpoint(white_player_id, black_player_id, is_bot_game) ==
  /\ games = <<>>
  /\ LET id == Len(games) + 1
         black == IF is_bot_game THEN None ELSE black_player_id
     IN /\ games' = Append(games, NewGame(id, white_player_id, black))
        /\ sessions' = Append(sessions, NewSession(id))
        /\ last' = Result("create_game_endpoint", id, "", 0, NoEngine, TRUE,
                          "", None, None, 0)
        /\ UNCHANGED <<pc, puzzles, user_puzzles, reqs, sched>>

\* ------------------------------------------------------------------------
\* make_move

EndedMessage(game_result) ==
  IF game_result = "white_won" THEN "Game ended: white_won"
  ELSE IF game_result = "black_won" THEN "Game ended: black_won"
  ELSE "Game ended: draw"

MakeMoveFail(game_id, move_uci, message) ==
  /\ UNCHANGED <<games, sessions>>
  /\ last' = Result("make_move", game_id, move_uci, 0, NoEngine, FALSE,
                    message, None, None, 0)

\* Lines 144-221: the move is legal on board (parsed from the session row).
MakeMoveApply(game_id, move_uci, gi, si, board) ==
  LET game == games[gi]
      session == sessions[si]
      board1 == Push(board, Get(FromUci(move_uci)))
      new_fen == Fen(board1)
      move_history == Append(JsonLoads(session.move_history), move_uci)
      session1 == SessionWith(session, new_fen, move_history)
      game_result == GetGameResult(board1)
  IN IF game_result /= None
       THEN /\ sessions' = [sessions EXCEPT ![si] = session1]
            /\ games' = [games EXCEPT
                           ![gi] = EndGame(game, Get(game_result), move_history)]
            /\ last' = Result("make_move", game_id, move_uci, 0, NoEngine, TRUE,
                              EndedMessage(Get(game_result)), Some(new_fen),
                              None, 0)
     ELSE IF IsBotTurn(game, board1)
       THEN \E eng \in EngineAnswers,
               pick \in (IF LegalMoves(board1) = {} THEN {"0000"}
                         ELSE LegalMoves(board1)) :
              LET ans == GetBestMove(board1, eng, pick)
              IN IF ~ans.raised /\ ans.move /= None
                   THEN LET bot_move == Get(ans.move)
                            board2 == Push(board1, bot_move)
                            new_fen2 == Fen(board2)
                            move_history2 == Append(move_history, bot_move)
                            session2 == SessionWith(session1, new_fen2,
                                                    move_history2)
                            game_result2 == ResultAfterBotMove(board2)
                        IN /\ sessions' = [sessions EXCEPT ![si] = session2]
                           /\ IF game_result2 /= None
                                THEN /\ games' = [games EXCEPT ![gi] =
                                           EndGame(game, Get(game_result2),
                                                   move_history2)]
                                     /\ last' = Result("make_move", game_id,
                                           move_uci, 0, eng, TRUE,
                                           EndedMessage(Get(game_result2)),
                                           Some(new_fen2), Some(bot_move),
                                           ans.calls)
                                ELSE /\ UNCHANGED games
                                     /\ last' = Result("make_move", game_id,
                                           move_uci, 0, eng, TRUE,
                                           "Move successful", Some(new_fen2),
                                           Some(bot_move), ans.calls)
                   ELSE /\ sessions' = [sessions EXCEPT ![si] = session1]
                        /\ UNCHANGED games
                        /\ last' = Result("make_move", game_id, move_uci, 0,
                                          eng, TRUE, "Move successful",
                                          Some(new_fen), None, ans.calls)
     ELSE /\ sessions' = [sessions EXCEPT ![si] = session1]
          /\ UNCHANGED games
          /\ last' = Result("make_move", game_id, move_uci, 0, NoEngine, TRUE,
                            "Move successful", Some(new_fen), None, 0)

\* Lines 108-142: the message of the first check that refuses the request,
\* or "" when the move can be made.
MakeMoveChecks(game_id, move_uci) ==
  LET g == GetGame(game_id)
      s == GetGameSession(game_id)
  IN IF g = None THEN "Game not found"
     ELSE IF NotInProgress(games[Get(g)]) THEN "Game is not in progress"
     ELSE IF s = None THEN "Game session not found"
     ELSE IF ~IsValidFen(sessions[Get(s)].current_fen)
       THEN "Invalid board position"
     ELSE IF FromUci(move_uci) = None THEN "Invalid move format"
     ELSE IF ~IsLegal(ParseFen(sessions[Get(s)].current_fen),
                      Get(FromUci(move_uci)))
       THEN "Invalid move"
     ELSE ""

\* (variant: a player who does not hold the colour to move is refused)
MakeMoveRefusalByColour(game_id, move_uci, player_id) ==
  IF MakeMoveChecks(game_id, move_uci) /= ""
    THEN MakeMoveChecks(game_id, move_uci)
  ELSE LET game == games[Get(GetGame(game_id))]
           board == ParseFen(sessions[Get(GetGameSession(game_id))].current_fen)
           holder == IF board.turn = WHITE THEN game.white_player_id
                     ELSE game.black_player_id
       IN IF player_id /= None /\ player_id /= holder
            THEN "Not your turn"
          ELSE ""

\* Lines 97-142: make_move takes player_id (default None) and none of its
\* checks reads it.
MakeMoveRefusal(game_id, move_uci, player_id) ==
  MakeMoveChecks(game_id, move_uci)

\* The player ids a request can carry: absent, the white player, the black
\* player, a stranger.
PlayerInputs == {None, Some(7), Some(8), Some(9)}

MakeMove(game_id, move_uci, player_id) ==
  /\ UNCHANGED <<pc, puzzles, user_puzzles, reqs, sched>>
  /\ IF MakeMoveRefusal(game_id, move_uci, player_id) /= ""
       THEN MakeMoveFail(game_id, move_uci,
                         MakeMoveRefusal(game_id, move_uci, player_id))
       ELSE MakeMoveApply(game_id, move_uci, Get(GetGame(game_id)),
                          Get(GetGameSession(game_id)),
                          ParseFen(sessions[Get(GetGameSession(game_id))]
                                     .current_fen))

\* ------------------------------------------------------------------------
\* undo_move

UndoMoveFail(game_id, num_moves, message) ==
  /\ UNCHANGED <<games, sessions>>
  /\ last' = Result("undo_move", game_id, "", num_moves, NoEngine, FALSE,
                    message, None, None, 0)

\* (variant: the length test lets one count too many through)
NotEnoughMovesOffByOne(move_history, num_moves) ==
  Len(move_history) + 1 < num_moves

\* Line 253: len(move_history) < num_moves
NotEnoughMoves(move_history, num_moves) == Len(move_history) < num_moves

UndoMove(game_id, num_moves) ==
  /\ UNCHANGED <<pc, puzzles, user_puzzles, reqs, sched>>
  /\ LET g == GetGame(game_id)
         s == GetGameSession(game_id)
     IN IF g = None THEN UndoMoveFail(game_id, num_moves, "Game not found")
        ELSE IF s = None
          THEN UndoMoveFail(game_id, num_moves, "Game session not found")
        ELSE
          LET gi == Get(g)
              si == Get(s)
              move_history == JsonLoads(sessions[si].move_history)
              new_move_history == DropLast(move_history, num_moves)
              replay == ReplayFrom(StartingBoard, new_move_history)
          IN IF NotEnoughMoves(move_history, num_moves)
               THEN UndoMoveFail(game_id, num_moves, "Not enough moves to undo")
             ELSE IF replay = None
               THEN UndoMoveFail(game_id, num_moves, "Invalid move in history")
             ELSE /\ sessions' = [sessions EXCEPT
                                    ![si] = SessionWith(sessions[si],
                                                        Fen(Get(replay)),
                                                        new_move_history)]
                  /\ games' = [games EXCEPT ![gi] = UndoGame(games[gi])]
                  /\ last' = Result("undo_move", game_id, "", num_moves, NoEngine,
                                    TRUE, "Undid move(s)", Some(Fen(Get(replay))),
                                    None, 0)

\* ------------------------------------------------------------------------

UndoCounts == (0 - 1) .. MaxCount

\* The stored move log of a game (empty when the game has no session).
LogOf(game_id) ==
  IF GetGameSession(game_id) = None THEN <<>>
  ELSE JsonLoads(sessions[Get(GetGameSession(game_id))].move_history)

Next ==
  \/ \E w \in WhitePlayerIds, b \in BlackPlayerIds, bot \in BOOLEAN :
       CreateGame(w, b, bot)
  \/ \E w \in WhitePlayerIds, b \in BlackPlayerIds, bot \in BOOLEAN :
       CreateGameEndpoint(w, b, bot)
  \/ \E id \in GameIds, m \in MoveInputs, p \in PlayerInputs :
       Len(LogOf(id)) < MaxLog /\ MakeMove(id, m, p)
  \/ \E id \in GameIds, n \in UndoCounts : UndoMove(id, n)

Spec == Init /\ [][Next]_vars

\* ------------------------------------------------------------------------
\* A long game.  get_game_result never sees a repetition on the board
\* make_move parses from the session row, so a game of knight moves back
\* and forth stays in progress; SpecLong starts from such a game after
\* LongBase plies and follows it to the halfmove limit.  Undo requests are
\* followed while they keep at least LongBase plies.

ShuffleCycle == <<"g1f3", "g8f6", "f3g1", "f6g8">>
ShuffleLog(n) == [i \in 1 .. n |-> ShuffleCycle[((i - 1) % 4) + 1]]

InitLong ==
  /\ \E b \in BlackPlayerIds :
       games = << [id |-> 1, white_player_id |-> Some(7),
                   black_player_id |-> b, pgn |-> None,
                   status |-> IN_PROGRESS, ended_at |-> None] >>
  /\ sessions = << SessionWith([game_id |-> 1, current_fen |-> Fen(StartingBoard),
                                move_history |-> JsonDumps(<<>>)],
                               Fen(Get(ReplayFrom(StartingBoard,
                                                  ShuffleLog(LongBase)))),
                               ShuffleLog(LongBase)) >>
  /\ last = Result("init", 0, "", 0, NoEngine, TRUE, "", None, None, 0)
  /\ pc = Idle
  /\ reqs = NoRequests /\ sched = NoScheduler
  /\ puzzles = <<>>
  /\ user_puzzles = <<>>

NextLong ==
  \/ \E id \in GameIds, m \in MoveInputs, p \in PlayerInputs :
       MakeMove(id, m, p)
  \/ \E id \in GameIds, n \in UndoCounts :
       /\ Len(DropLast(LogOf(id), n)) >= LongBase
       /\ UndoMove(id, n)

SpecLong == InitLong /\ [][NextLong]_vars

\* ------------------------------------------------------------------------
\* make_move commit by commit.  Every db.commit() of make_move ends a step;
\* between two steps the request can stop (the worker is killed, the
\* connection is lost) and nothing more of it is executed.

\* (variant: the human ply is not written before the evaluation)
FirstCommitDeferred(session, new_fen, move_history) == session

\* Lines 149-155: the session row committed after board.push(move).
FirstCommit(session, new_fen, move_history) ==
  SessionWith(session, new_fen, move_history)

\* Lines 97-155: the checks, the human ply and the first commit.
MakeMoveCommitPly(game_id, move_uci) ==
  /\ pc = Idle
  /\ UNCHANGED <<games, puzzles, user_puzzles, reqs, sched>>
  /\ IF MakeMoveChecks(game_id, move_uci) /= ""
       THEN /\ UNCHANGED <<sessions, pc>>
            /\ last' = Result("make_move", game_id, move_uci, 0, NoEngine,
                              FALSE, MakeMoveChecks(game_id, move_uci),
                              None, None, 0)
       ELSE LET si == Get(GetGameSession(game_id))
                session == sessions[si]
                board1 == Push(ParseFen(session.current_fen),
                               Get(FromUci(move_uci)))
                move_history == Append(JsonLoads(session.move_history),
                                       move_uci)
            IN /\ sessions' = [sessions EXCEPT
                                 ![si] = FirstCommit(session, Fen(board1),
                                                     move_history)]
               /\ pc' = [Idle EXCEPT !.stage = "evaluate",
                                     !.game_id = game_id,
                                     !.move_uci = move_uci,
                                     !.gi = Get(GetGame(game_id)),
                                     !.si = si,
                                     !.board = board1,
                                     !.move_history = move_history,
                                     !.new_fen = Some(Fen(board1))]
               /\ UNCHANGED last

\* Lines 158-181: the result after the human ply; the game is ended, or the
\* engine is to be asked, or the request returns.
MakeMoveEvaluate ==
  /\ pc.stage = "evaluate"
  /\ UNCHANGED <<sessions, puzzles, user_puzzles, reqs, sched>>
  /\ LET game == games[pc.gi]
         game_result == GetGameResult(pc.board)
     IN IF game_result /= None
          THEN /\ games' = [games EXCEPT
                              ![pc.gi] = EndGame(game, Get(game_result),
                                                 pc.move_history)]
               /\ last' = Result("make_move", pc.game_id, pc.move_uci, 0,
                                 NoEngine, TRUE,
                                 EndedMessage(Get(game_result)), pc.new_fen,
                                 None, 0)
               /\ pc' = Idle
        ELSE IF IsBotTurn(game, pc.board)
          THEN /\ pc' = [pc EXCEPT !.stage = "engine"]
               /\ UNCHANGED <<games, last>>
        ELSE /\ last' = Result("make_move", pc.game_id, pc.move_uci, 0,
                               NoEngine, TRUE, "Move successful", pc.new_fen,
                               None, 0)
             /\ pc' = Idle
             /\ UNCHANGED games

\* Lines 182-197 and 214-221: the engine is asked; its move is pushed and
\* committed, or the request returns without a bot move.
MakeMoveAskEngine ==
  /\ pc.stage = "engine"
  /\ UNCHANGED <<games, puzzles, user_puzzles, reqs, sched>>
  /\ \E eng \in EngineAnswers,
        pick \in (IF LegalMoves(pc.board) = {} THEN {"0000"}
                  ELSE LegalMoves(pc.board)) :
       LET ans == GetBestMove(pc.board, eng, pick)
       IN IF ~ans.raised /\ ans.move /= None
            THEN LET board2 == Push(pc.board, Get(ans.move))
                     move_history2 == Append(pc.move_history, Get(ans.move))
                 IN /\ sessions' = [sessions EXCEPT
                                      ![pc.si] = SessionWith(sessions[pc.si],
                                                             Fen(board2),
                                                             move_history2)]
                    /\ pc' = [pc EXCEPT !.stage = "evaluate_bot",
                                        !.board = board2,
                                        !.move_history = move_history2,
                                        !.new_fen = Some(Fen(board2)),
                                        !.bot_move = ans.move,
                                        !.engine = eng,
                                        !.engine_calls = ans.calls]
                    /\ UNCHANGED last
            ELSE /\ last' = Result("make_move", pc.game_id, pc.move_uci, 0,
                                   eng, TRUE, "Move successful", pc.new_fen,
                                   None, ans.calls)
                 /\ pc' = Idle
                 /\ UNCHANGED sessions

\* Lines 199-213 and 221: the result after the bot's move.
MakeMoveEvaluateBot ==
  /\ pc.stage = "evaluate_bot"
  /\ UNCHANGED <<sessions, puzzles, user_puzzles, reqs, sched>>
  /\ LET game_result2 == ResultAfterBotMove(pc.board)
     IN /\ IF game_result2 /= None
             THEN games' = [games EXCEPT
                              ![pc.gi] = EndGame(games[pc.gi],
                                                 Get(game_result2),
                                                 pc.move_history)]
             ELSE UNCHANGED games
        /\ last' = Result("make_move", pc.game_id, pc.move_uci, 0, pc.engine,
                          TRUE,
                          IF game_result2 /= None
                            THEN EndedMessage(Get(game_result2))
                            ELSE "Move successful",
                          pc.new_fen, pc.bot_move, pc.engine_calls)
        /\ pc' = Idle

\* The request stops after a commit: nothing is returned and nothing more
\* is written.
Stop ==
  /\ pc.stage /= "idle"
  /\ UNCHANGED <<games, sessions, puzzles, user_puzzles, reqs, sched>>
  /\ last' = Result("make_move", pc.game_id, pc.move_uci, 0, pc.engine, FALSE,
                    "stopped", None, pc.bot_move, pc.engine_calls)
  /\ pc' = Idle

NextSteps ==
  \/ \E w \in WhitePlayerIds, b \in BlackPlayerIds, bot \in BOOLEAN :
       CreateGame(w, b, bot)
  \/ \E id \in GameIds, m \in MoveInputs :
       Len(LogOf(id)) < MaxLog /\ MakeMoveCommitPly(id, m)
  \/ MakeMoveEvaluate
  \/ MakeMoveAskEngine
  \/ MakeMoveEvaluateBot
  \/ Stop
  \/ \E id \in GameIds, n \in UndoCounts : pc = Idle /\ UndoMove(id, n)

SpecSteps == Init /\ [][NextSteps]_vars

\* ------------------------------------------------------------------------
\* create_game under recover_database when commits fail.  create_game
\* commits the game row (line 51) and then the session row (line 62); the
\* wrapper calls create_game again, with the same arguments, after every
\* exception, MaxRetries times at most.

\* For each attempt, the commit that raises.
CommitFaults == [1 .. MaxRetries -> {"none", "first", "second"}]

\* RecoveryStrategy.recover around create_game from attempt number
\* `attempt` on: the tables after the last attempt, and the id of the game
\* returned (None when the last exception is raised to the caller).
RECURSIVE CreateAttempts(_, _, _, _, _, _)
CreateAttempts(gs, ss, attempt, faults, white_player_id, black_player_id) ==
  IF attempt > MaxRetries
    THEN [games |-> gs, sessions |-> ss, returned |-> None]
  ELSE IF faults[attempt] = "first"
    THEN CreateAttempts(gs, ss, attempt + 1, faults,
                        white_player_id, black_player_id)
  ELSE LET id == Len(gs) + 1
           game == NewGame(id, white_player_id, black_player_id)
           session == NewSession(id)
       IN IF faults[attempt] = "second"
            THEN CreateAttempts(Append(gs, game), ss, attempt + 1, faults,
                                white_player_id, black_player_id)
            ELSE [games |-> Append(gs, game), sessions |-> Append(ss, session),
                  returned |-> Some(id)]

CreateGameRecovered(white_player_id, black_player_id, is_bot_game, faults) ==
  /\ games = <<>>
  /\ LET run == CreateAttempts(games, sessions, 1, faults,
                               white_player_id, black_player_id)
     IN /\ games' = run.games
        /\ sessions' = run.sessions
        /\ last' = Result("create_game",
                          IF run.returned = None THEN 0 ELSE Get(run.returned),
                          "", 0, NoEngine, run.returned /= None,
                          IF run.returned = None THEN "database error" ELSE "",
                          None, None, 0)
        /\ UNCHANGED <<pc, puzzles, user_puzzles, reqs, sched>>

\* The game ids requests are made for: the first game row and the second.
FaultGameIds == {1, 2}

NextFaults ==
  \/ \E w \in WhitePlayerIds, b \in BlackPlayerIds, bot \in BOOLEAN,
        faults \in CommitFaults :
       CreateGameRecovered(w, b, bot, faults)
  \/ \E id \in FaultGameIds, m \in MoveInputs, p \in PlayerInputs :
       Len(LogOf(id)) < MaxLog /\ MakeMove(id, m, p)
  \/ \E id \in FaultGameIds, n \in UndoCounts : UndoMove(id, n)

SpecFaults == Init /\ [][NextFaults]_vars

\* ------------------------------------------------------------------------
\* A damaged store.  The session row of the game was written from outside
\* the service: one entry of its move log was replaced by a move that is
\* legal nowhere ("e2e5", whose pawn stands on e2 all through the log, so
\* that board.push moves it without complaint) or by a string that is no
\* move ("e2"), or its position column holds text that is no position.

BadFen == <<"not a position">>

\* A log of knight moves with entry i replaced.
DamagedLog(n, i, entry) == [ShuffleLog(n) EXCEPT ![i] = entry]

DamagedSessions ==
  { [game_id |-> 1, current_fen |-> fen, move_history |-> JsonDumps(log)] :
      fen \in {BadFen},
      log \in {ShuffleLog(n) : n \in 0 .. MaxCorruptLog} }
  \cup
  UNION { { [game_id |-> 1,
             current_fen |-> fen,
             move_history |-> JsonDumps(DamagedLog(n, i, entry))] :
              fen \in {Fen(Get(ReplayFrom(StartingBoard, ShuffleLog(n)))),
                       BadFen},
              i \in 1 .. n, entry \in {"e2e5", "e2"} } :
          n \in 1 .. MaxCorruptLog }

InitCorrupt ==
  /\ \E b \in BlackPlayerIds :
       games = << [id |-> 1, white_player_id |-> Some(7),
                   black_player_id |-> b, pgn |-> None,
                   status |-> IN_PROGRESS, ended_at |-> None] >>
  /\ \E session \in DamagedSessions : sessions = << session >>
  /\ last = Result("init", 0, "", 0, NoEngine, TRUE, "", None, None, 0)
  /\ pc = Idle
  /\ reqs = NoRequests /\ sched = NoScheduler
  /\ puzzles = <<>>
  /\ user_puzzles = <<>>

NextCorrupt ==
  \/ \E id \in GameIds, m \in MoveInputs, p \in PlayerInputs :
       Len(LogOf(id)) < MaxLog /\ MakeMove(id, m, p)
  \/ \E id \in GameIds, n \in UndoCounts : UndoMove(id, n)

SpecCorrupt == InitCorrupt /\ [][NextCorrupt]_vars

\* ------------------------------------------------------------------------
\* The HTTP endpoint of make_move (backend/app/api/games.py)

\* Lines 138-170: the response to the result the service returned.
MakeMoveEndpoint(success, message) ==
  IF ~success
    THEN [status_code |-> HTTP_400_BAD_REQUEST, detail |-> message]
    ELSE [status_code |-> HTTP_200_OK, detail |-> message]

\* The refusals of make_move that answer an error of the user.
UserErrorMessages ==
  {"Invalid move", "Invalid move format", "Game is not in progress"}

\* ------------------------------------------------------------------------
\* Puzzles (backend/app/services/puzzle_service.py, models/puzzle.py).
\* No operation of the backend writes the puzzles table: its rows are
\* loaded from outside.  The model follows one puzzle row (id 1).

\* Text in the moves column that json.loads rejects.
BadJson == <<"not json">>

\* Lines 89-92: json.loads(puzzle.moves), [] when the text is no JSON.
SolutionMoves(text) ==
  IF Len(text) = 2 /\ text[1] = "json" THEN text[2] ELSE <<>>

\* The solutions of the stored puzzles: lines of knight moves, legal from
\* the starting position, and such lines with one entry replaced by a move
\* that is legal nowhere or by a string that is no move.  The position of a
\* puzzle is the starting position, the position after g1f3, or text that
\* is no position.
SolutionLists ==
  {ShuffleLog(n) : n \in 0 .. MaxSolution}
  \cup UNION { {DamagedLog(n, i, entry) : i \in 1 .. n,
                                          entry \in {"e2e5", "e2"}} :
               n \in 1 .. MaxSolution }

PuzzleRows ==
  { [id |-> 1, difficulty |-> "easy", fen |-> Fen(StartingBoard), moves |-> moves] :
      moves \in {JsonDumps(l) : l \in SolutionLists} \cup {BadJson} }
  \cup { [id |-> 1, difficulty |-> "easy", fen |-> BadFen, moves |-> JsonDumps(ShuffleLog(1))] }
  \cup { [id |-> 1, difficulty |-> "easy", fen |-> Fen(Push(StartingBoard, "g1f3")),
          moves |-> JsonDumps(l)] : l \in {<<"g8f6">>, <<"g1f3">>} }

\* db.query(Puzzle).filter(Puzzle.id == puzzle_id).first()
GetPuzzle(puzzle_id) ==
  LET rows == {i \in 1 .. Len(puzzles) : puzzles[i].id = puzzle_id}
  IN IF rows = {} THEN None
     ELSE Some(CHOOSE i \in rows : \A j \in rows : i <= j)

\* db.query(UserPuzzle).filter(user_id, puzzle_id).first()
GetUserPuzzle(user_id, puzzle_id) ==
  LET rows == {i \in 1 .. Len(user_puzzles) :
                 /\ user_puzzles[i].user_id = user_id
                 /\ user_puzzles[i].puzzle_id = puzzle_id}
  IN IF rows = {} THEN None
     ELSE Some(CHOOSE i \in rows : \A j \in rows : i <= j)

\* Lines 104-114: the replay of the solution from the puzzle position.  The
\* index after the loop: the number of leading solution moves that are
\* legal one after the other.
\* (variant: a well-formed solution move is pushed without the legality test)
RECURSIVE ReplaySolutionUnchecked(_, _, _)
ReplaySolutionUnchecked(board, solution_moves, i) ==
  IF i > Len(solution_moves) THEN i - 1
  ELSE IF FromUci(solution_moves[i]) = None THEN i - 1
  ELSE ReplaySolutionUnchecked(Push(board, Get(FromUci(solution_moves[i]))),
                               solution_moves, i + 1)

RECURSIVE ReplaySolution(_, _, _)
ReplaySolution(board, solution_moves, i) ==
  IF i > Len(solution_moves) THEN i - 1
  ELSE IF FromUci(solution_moves[i]) = None THEN i - 1
  ELSE IF IsLegal(board, Get(FromUci(solution_moves[i])))
    THEN ReplaySolution(Push(board, Get(FromUci(solution_moves[i]))),
                        solution_moves, i + 1)
  ELSE i - 1

\* (variant: the replay starts from the starting position of chess)
CurrentMoveIndexFromStart(puzzle) ==
  ReplaySolution(StartingBoard, SolutionMoves(puzzle.moves), 1)

\* Lines 97-114: current_move_index after the replay loop, for a puzzle
\* row whose position parses.
CurrentMoveIndex(puzzle) ==
  ReplaySolution(ParseFen(puzzle.fen), SolutionMoves(puzzle.moves), 1)

\* (variant: a new row starts with one solved attempt)
NewUserPuzzleOne(user_id, puzzle_id) ==
  [user_id |-> user_id, puzzle_id |-> puzzle_id,
   solved |-> 1, failed |-> 0, last_attempted_at |-> None]

\* Lines 170-175: UserPuzzle(user_id, puzzle_id, solved=0, failed=0)
NewUserPuzzle(user_id, puzzle_id) ==
  [user_id |-> user_id, puzzle_id |-> puzzle_id,
   solved |-> 0, failed |-> 0, last_attempted_at |-> None]

\* Lines 178-183: the row with the attempt counted.
Counted(row, success) ==
  [row EXCEPT !.solved = IF success THEN @ + 1 ELSE @,
              !.failed = IF success THEN @ ELSE @ + 1,
              !.last_attempted_at = Some(Now)]

\* _update_user_stats: the user_puzzles table after the attempt is counted.
UpdateUserStats(user_id, puzzle_id, success) ==
  LET found == GetUserPuzzle(user_id, puzzle_id)
  IN IF found = None
       THEN Append(user_puzzles,
                   Counted(NewUserPuzzle(user_id, puzzle_id), success))
       ELSE [user_puzzles EXCEPT
               ![Get(found)] = Counted(user_puzzles[Get(found)], success)]

\* The moves submitted so far for puzzle 1 (kept with the last answer).
Submitted == IF last.op = "attempt_puzzle" THEN last.history ELSE <<>>

\* The answer of attempt_puzzle: (correct, message, next_move, is_complete),
\* with current_move_index as the replay left it (None when the replay was
\* not reached).
Answer(puzzle_id, move_uci, user_id, correct, message, next_move, complete, index) ==
  [op |-> "attempt_puzzle", puzzle_id |-> puzzle_id, move |-> move_uci,
   user_id |-> user_id, correct |-> correct, message |-> message,
   next_move |-> next_move, is_complete |-> complete, index |-> index,
   history |-> IF puzzle_id = 1 THEN Append(Submitted, move_uci)
               ELSE Submitted]

\* if user_id:  (None and 0 are false)
Truthy(user_id) == user_id /= None /\ Get(user_id) /= 0

AttemptPuzzle(puzzle_id, move_uci, user_id) ==
  /\ UNCHANGED <<games, sessions, pc, puzzles, reqs, sched>>
  /\ LET p == GetPuzzle(puzzle_id)
         puzzle == puzzles[Get(p)]
         solution_moves == SolutionMoves(puzzle.moves)
         current_move_index == CurrentMoveIndex(puzzle)
         expected_move == solution_moves[current_move_index + 1]
         is_complete == current_move_index + 1 >= Len(solution_moves)
         Fail(message, complete, index) ==
           /\ UNCHANGED user_puzzles
           /\ last' = Answer(puzzle_id, move_uci, user_id, FALSE, message,
                             None, complete, index)
     IN IF p = None THEN Fail("Puzzle not found", FALSE, None)
        ELSE IF solution_moves = <<>>
          THEN Fail("Invalid puzzle data", FALSE, None)
        ELSE IF ~IsValidFen(puzzle.fen)
          THEN Fail("Invalid puzzle position", FALSE, None)
        ELSE IF current_move_index >= Len(solution_moves)
          THEN Fail("Puzzle already solved", TRUE, Some(current_move_index))
        ELSE IF FromUci(move_uci) = None
          THEN Fail("Invalid move format", FALSE, Some(current_move_index))
        ELSE IF Get(FromUci(move_uci)) = expected_move
          THEN /\ user_puzzles' =
                    IF Truthy(user_id)
                      THEN UpdateUserStats(Get(user_id), puzzle_id, TRUE)
                      ELSE user_puzzles
               /\ last' = Answer(puzzle_id, move_uci, user_id, TRUE,
                                 "Correct move!",
                                 IF is_complete THEN None
                                 ELSE Some(solution_moves[current_move_index + 2]),
                                 is_complete, Some(current_move_index))
        ELSE /\ user_puzzles' =
                  IF Truthy(user_id)
                    THEN UpdateUserStats(Get(user_id), puzzle_id, FALSE)
                    ELSE user_puzzles
             /\ last' = Answer(puzzle_id, move_uci, user_id, FALSE,
                               "Incorrect move. Try again!", None, FALSE,
                               Some(current_move_index))

PuzzleIds == {1, 2}
UserIds == {None, Some(0), Some(5)}
PuzzleMoveInputs ==
  {ShuffleLog(MaxSolution)[i] : i \in 1 .. MaxSolution} \cup {"e2e5", "e2"}

InitPuzzle ==
  /\ games = <<>>
  /\ sessions = <<>>
  /\ last = Result("init", 0, "", 0, NoEngine, TRUE, "", None, None, 0)
  /\ pc = Idle
  /\ reqs = NoRequests /\ sched = NoScheduler
  /\ \E row \in PuzzleRows : puzzles = << row >>
  /\ user_puzzles = <<>>

NextPuzzle ==
  \E puzzle_id \in PuzzleIds, m \in PuzzleMoveInputs, user_id \in UserIds :
    Len(Submitted) < MaxPuzzleAttempts /\ AttemptPuzzle(puzzle_id, m, user_id)

SpecPuzzle == InitPuzzle /\ [][NextPuzzle]_vars

\* ---------------------------------------------------------------------
\* get_user_stats, applied to tables drawn from bounded sets.

\* PuzzleDifficulty
PuzzleDifficulties == {"easy", "medium", "hard", "expert"}

RECURSIVE SumSolved(_)
SumSolved(rows) ==
  IF rows = <<>> THEN 0 ELSE rows[1].solved + SumSolved(Tail(rows))

RECURSIVE SumFailed(_)
SumFailed(rows) ==
  IF rows = <<>> THEN 0 ELSE rows[1].failed + SumFailed(Tail(rows))

\* round(total_solved / total_attempts * 100, 2), in hundredths of a
\* percent (the quotient is never halfway between two hundredths for fewer
\* than 32 attempts).
SuccessRate(total_solved, total_attempts) ==
  IF total_attempts > 0
    THEN (2 * 10000 * total_solved + total_attempts) \div (2 * total_attempts)
    ELSE 0

\* (variant: a row replaces the sums of its difficulty instead of adding to
\* them)
RECURSIVE GroupByDifficultyLast(_, _)
GroupByDifficultyLast(rows, groups) ==
  IF rows = <<>> THEN groups
  ELSE LET up == rows[1]
           puzzle == GetPuzzle(up.puzzle_id)
           diff == puzzles[Get(puzzle)].difficulty
       IN IF puzzle = None THEN GroupByDifficultyLast(Tail(rows), groups)
          ELSE GroupByDifficultyLast(
                 Tail(rows),
                 [d \in DOMAIN groups \cup {diff} |->
                    IF d = diff
                      THEN [solved |-> up.solved, failed |-> up.failed]
                      ELSE groups[d]])

\* Lines 217-225: puzzles_by_difficulty, a dictionary from the difficulties
\* met to their solved and failed sums; a row whose puzzle is not found is
\* passed over.
RECURSIVE GroupByDifficulty(_, _)
GroupByDifficulty(rows, groups) ==
  IF rows = <<>> THEN groups
  ELSE LET up == rows[1]
           puzzle == GetPuzzle(up.puzzle_id)
           diff == puzzles[Get(puzzle)].difficulty
           before == IF diff \in DOMAIN groups THEN groups[diff]
                     ELSE [solved |-> 0, failed |-> 0]
       IN IF puzzle = None THEN GroupByDifficulty(Tail(rows), groups)
          ELSE GroupByDifficulty(
                 Tail(rows),
                 [d \in DOMAIN groups \cup {diff} |->
                    IF d = diff
                      THEN [solved |-> before.solved + up.solved,
                            failed |-> before.failed + up.failed]
                      ELSE groups[d]])

\* get_user_stats: the dictionary returned.  best_time_seconds is the
\* least best time of the rows; no code writes that column, so it is None.
GetUserStats(user_id) ==
  /\ UNCHANGED <<games, sessions, pc, puzzles, user_puzzles, reqs, sched>>
  /\ LET rows == SelectSeq(user_puzzles, LAMBDA up : up.user_id = user_id)
         total_solved == SumSolved(rows)
         total_failed == SumFailed(rows)
         total_attempts == total_solved + total_failed
     IN last' = [op |-> "get_user_stats", user_id |-> user_id,
                 total_solved |-> total_solved,
                 total_failed |-> total_failed,
                 success_rate |-> SuccessRate(total_solved, total_attempts),
                 best_time_seconds |-> None,
                 puzzles_by_difficulty |-> GroupByDifficulty(rows, << >>)]

StatUserIds == {5, 7}

\* A statistic row as _update_user_stats leaves it: at least one attempt
\* counted.
StatRow(user_id, puzzle_id, solved, failed) ==
  [user_id |-> user_id, puzzle_id |-> puzzle_id, solved |-> solved,
   failed |-> failed, last_attempted_at |-> Some(Now)]

\* The rows a user can have for one puzzle: none, or one with up to MaxStat
\* solved attempts and at most one failed attempt counted.
PairRows(user_id, puzzle_id) ==
  {<<>>} \cup ({ <<StatRow(user_id, puzzle_id, solved, failed)>> :
                   solved \in 0 .. MaxStat, failed \in 0 .. 1 }
               \ { <<StatRow(user_id, puzzle_id, 0, 0)>> })

\* Three puzzles, the second and third of any difficulty, and statistic
\* rows of user 5 for each of them and of user 7 for the first.
InitStats ==
  /\ games = <<>> /\ sessions = <<>>
  /\ last = Result("init", 0, "", 0, NoEngine, TRUE, "", None, None, 0)
  /\ pc = Idle
  /\ reqs = NoRequests /\ sched = NoScheduler
  /\ \E d2 \in PuzzleDifficulties, d3 \in {"easy", "hard"} :
       puzzles = << [id |-> 1, difficulty |-> "easy",
                     fen |-> Fen(StartingBoard),
                     moves |-> JsonDumps(<<"e2e5">>)],
                    [id |-> 2, difficulty |-> d2,
                     fen |-> Fen(StartingBoard),
                     moves |-> JsonDumps(<<"e2e5">>)],
                    [id |-> 3, difficulty |-> d3,
                     fen |-> Fen(StartingBoard),
                     moves |-> JsonDumps(<<"e2e5">>)] >>
  /\ \E r1 \in PairRows(5, 1), r2 \in PairRows(5, 2), r3 \in PairRows(5, 3),
        other \in PairRows(7, 1) :
       user_puzzles = r1 \o other \o r2 \o r3

NextStats == \E user_id \in StatUserIds \cup {9} : GetUserStats(user_id)

SpecStats == InitStats /\ [][NextStats]_vars

\* ---------------------------------------------------------------------
\* Recorded attempts of two requests at once.  Each request has its own
\* database session (get_db) on PostgreSQL at its default isolation (READ
\* COMMITTED) and takes no row lock: the query of _update_user_stats, the
\* change of the loaded object and the commit are separate steps.

RaceRequests == {1, 2}

\* A request that is not inside _update_user_stats; done counts, per user,
\* the recorded attempts the request has committed.
IdleStats(done) ==
  [stage |-> "idle", user_id |-> 0, success |-> FALSE, found |-> None,
   user_puzzle |-> NewUserPuzzle(0, 0), done |-> done]

\* attempt_puzzle up to lines 164-167 of _update_user_stats, for an attempt
\* that is compared and recorded: the first row of the pair as the query
\* sees it.
AttemptQuery(r, puzzle_id, move_uci, user_id) ==
  LET p == GetPuzzle(puzzle_id)
      puzzle == puzzles[Get(p)]
      solution_moves == SolutionMoves(puzzle.moves)
      current_move_index == CurrentMoveIndex(puzzle)
      found == GetUserPuzzle(Get(user_id), puzzle_id)
  IN /\ reqs[r].stage = "idle"
     /\ p /= None /\ solution_moves /= <<>> /\ IsValidFen(puzzle.fen)
     /\ current_move_index < Len(solution_moves)
     /\ FromUci(move_uci) /= None
     /\ Truthy(user_id)
     /\ reqs' = [reqs EXCEPT ![r] =
                   [stage |-> "queried", user_id |-> Get(user_id),
                    success |-> Get(FromUci(move_uci))
                                  = solution_moves[current_move_index + 1],
                    found |-> found,
                    user_puzzle |-> IF found = None
                                      THEN NewUserPuzzle(0, 0)
                                      ELSE user_puzzles[Get(found)],
                    done |-> reqs[r].done]]
     /\ UNCHANGED <<games, sessions, last, pc, puzzles, user_puzzles, sched>>

\* Lines 169-183: the row object of the request, created when the query
\* found none, with the attempt counted on the values the request loaded.
AttemptCount(r) ==
  /\ reqs[r].stage = "queried"
  /\ reqs' = [reqs EXCEPT
                ![r].stage = "counted",
                ![r].user_puzzle =
                  Counted(IF reqs[r].found = None
                            THEN NewUserPuzzle(reqs[r].user_id, 1)
                            ELSE reqs[r].user_puzzle,
                          reqs[r].success)]
  /\ UNCHANGED <<games, sessions, last, pc, puzzles, user_puzzles, sched>>

\* Line 184, db.commit(): a new row object is inserted; of a loaded row the
\* changed columns are written with the values of the object.
Committed(r) ==
  IF reqs[r].found = None
    THEN Append(user_puzzles, reqs[r].user_puzzle)
    ELSE [user_puzzles EXCEPT
            ![Get(reqs[r].found)] =
              [@ EXCEPT
                 !.solved = IF reqs[r].success
                              THEN reqs[r].user_puzzle.solved ELSE @,
                 !.failed = IF reqs[r].success
                              THEN @ ELSE reqs[r].user_puzzle.failed,
                 !.last_attempted_at = reqs[r].user_puzzle.last_attempted_at]]

AttemptCommit(r) ==
  /\ reqs[r].stage = "counted"
  /\ user_puzzles' = Committed(r)
  /\ reqs' = [reqs EXCEPT
                ![r] = IdleStats([reqs[r].done EXCEPT
                                    ![reqs[r].user_id] = @ + 1])]
  /\ UNCHANGED <<games, sessions, last, pc, puzzles, sched>>

\* The recorded attempts a request has begun.
Begun(r) ==
  reqs[r].done[5] + reqs[r].done[7]
  + (IF reqs[r].stage = "idle" THEN 0 ELSE 1)

\* One puzzle whose solution stops replaying at its first move, so that
\* attempts are compared; no statistic row.
InitRace ==
  /\ games = <<>> /\ sessions = <<>>
  /\ last = Result("init", 0, "", 0, NoEngine, TRUE, "", None, None, 0)
  /\ pc = Idle
  /\ sched = NoScheduler
  /\ reqs = [r \in RaceRequests |-> IdleStats([u \in StatUserIds |-> 0])]
  /\ puzzles = << [id |-> 1, difficulty |-> "easy",
                   fen |-> Fen(StartingBoard),
                   moves |-> JsonDumps(<<"e2e5">>)] >>
  /\ user_puzzles = <<>>

NextRace ==
  \E r \in RaceRequests :
    \/ \E m \in {"e2e5", "g1f3"}, u \in StatUserIds :
         Begun(r) < MaxRaceAttempts /\ AttemptQuery(r, 1, m, Some(u))
    \/ AttemptCount(r)
    \/ AttemptCommit(r)

SpecRace == InitRace /\ [][NextRace]_vars

\* ---------------------------------------------------------------------
\* make_move and undo_move of two requests at once on one game.  Each
\* request has its own database session: it loads the game and session
\* rows once, works on its own board and list, and writes with each
\* db.commit() the columns it has set.  The steps of a request are its
\* reads and its commits; no row is locked between them.

ConcRequests == {1, 2}

\* A request slot between two requests.  applied: the plies its make_move
\* requests have reported as applied; undos: the undo_move requests it has
\* committed; begun: the requests it has started.
ConcIdle(applied, undos, begun) ==
  [stage |-> "idle", game_id |-> 0, move_uci |-> "", num_moves |-> 0,
   gi |-> 0, si |-> 0, game |-> NewGame(0, None, None),
   board |-> StartingBoard, move_history |-> <<>>, new_fen |-> None,
   bot_move |-> None, applied |-> applied, undos |-> undos, begun |-> begun]

\* The request of slot r returns.
Returned(r, plies, undos) ==
  ConcIdle(reqs[r].applied \o plies, reqs[r].undos + undos, reqs[r].begun)

\* The engine answers at its first call, with a move or without one.
ConcEngineAnswers ==
  {eng \in EngineAnswers : eng.fails = 0 /\ eng.final \in {"move", "none"}}

\* (variant: the commit appends the request's last ply to the stored log)
CommitSessionAppending(stored, new_fen, move_history) ==
  [stored EXCEPT
     !.current_fen = new_fen,
     !.move_history =
       JsonDumps(IF move_history = <<>> THEN <<>>
                 ELSE Append(JsonLoads(stored.move_history),
                             move_history[Len(move_history)]))]

\* db.commit() after session.current_fen = ...; session.move_history = ...:
\* both columns of the stored row are written with the request's values.
CommitSession(stored, new_fen, move_history) ==
  SessionWith(stored, new_fen, move_history)

\* make_move, lines 116-147: the rows are loaded, the move is checked and
\* pushed on the request's board.
ConcMakeMoveRead(r, game_id, move_uci) ==
  /\ reqs[r].stage = "idle"
  /\ UNCHANGED <<games, sessions, pc, puzzles, user_puzzles, sched>>
  /\ IF MakeMoveChecks(game_id, move_uci) /= ""
       THEN /\ reqs' = [reqs EXCEPT ![r].begun = @ + 1]
            /\ last' = Result("make_move", game_id, move_uci, 0, NoEngine,
                              FALSE, MakeMoveChecks(game_id, move_uci),
                              None, None, 0)
       ELSE LET si == Get(GetGameSession(game_id))
                session == sessions[si]
                board1 == Push(ParseFen(session.current_fen),
                               Get(FromUci(move_uci)))
            IN /\ reqs' = [reqs EXCEPT
                             ![r].stage = "pushed",
                             ![r].game_id = game_id,
                             ![r].move_uci = move_uci,
                             ![r].gi = Get(GetGame(game_id)),
                             ![r].si = si,
                             ![r].game = games[Get(GetGame(game_id))],
                             ![r].board = board1,
                             ![r].move_history =
                               Append(JsonLoads(session.move_history),
                                      move_uci),
                             ![r].new_fen = Some(Fen(board1)),
                             ![r].begun = @ + 1]
               /\ UNCHANGED last

\* Lines 149-155: the first commit.
ConcMakeMoveCommitPly(r) ==
  /\ reqs[r].stage = "pushed"
  /\ sessions' = [sessions EXCEPT
                    ![reqs[r].si] = CommitSession(sessions[reqs[r].si],
                                                  Get(reqs[r].new_fen),
                                                  reqs[r].move_history)]
  /\ reqs' = [reqs EXCEPT ![r].stage = "evaluate"]
  /\ UNCHANGED <<games, last, pc, puzzles, user_puzzles, sched>>

\* Lines 158-181: the result after the human ply.
ConcMakeMoveEvaluate(r) ==
  /\ reqs[r].stage = "evaluate"
  /\ UNCHANGED <<sessions, pc, puzzles, user_puzzles, sched>>
  /\ LET game == games[reqs[r].gi]
         game_result == GetGameResult(reqs[r].board)
     IN IF game_result /= None
          THEN /\ games' = [games EXCEPT
                              ![reqs[r].gi] =
                                EndGame(game, Get(game_result),
                                        reqs[r].move_history)]
               /\ last' = Result("make_move", reqs[r].game_id,
                                 reqs[r].move_uci, 0, NoEngine, TRUE,
                                 EndedMessage(Get(game_result)),
                                 reqs[r].new_fen, None, 0)
               /\ reqs' = [reqs EXCEPT
                             ![r] = Returned(r, <<reqs[r].move_uci>>, 0)]
        ELSE IF IsBotTurn(game, reqs[r].board)
          THEN /\ reqs' = [reqs EXCEPT ![r].stage = "engine"]
               /\ UNCHANGED <<games, last>>
        ELSE /\ last' = Result("make_move", reqs[r].game_id,
                               reqs[r].move_uci, 0, NoEngine, TRUE,
                               "Move successful", reqs[r].new_fen, None, 0)
             /\ reqs' = [reqs EXCEPT
                           ![r] = Returned(r, <<reqs[r].move_uci>>, 0)]
             /\ UNCHANGED games

\* Lines 182-197 and 214-221: the engine is asked; its move is pushed and
\* committed, or the request returns without a bot move.
ConcMakeMoveAskEngine(r) ==
  /\ reqs[r].stage = "engine"
  /\ UNCHANGED <<games, pc, puzzles, user_puzzles, sched>>
  /\ \E eng \in ConcEngineAnswers,
        pick \in (IF LegalMoves(reqs[r].board) = {} THEN {"0000"}
                  ELSE LegalMoves(reqs[r].board)) :
       LET ans == GetBestMove(reqs[r].board, eng, pick)
       IN IF ~ans.raised /\ ans.move /= None
            THEN LET board2 == Push(reqs[r].board, Get(ans.move))
                     move_history2 == Append(reqs[r].move_history,
                                             Get(ans.move))
                 IN /\ sessions' =
                         [sessions EXCEPT
                            ![reqs[r].si] =
                              CommitSession(sessions[reqs[r].si],
                                            Fen(board2), move_history2)]
                    /\ reqs' = [reqs EXCEPT
                                  ![r].stage = "evaluate_bot",
                                  ![r].board = board2,
                                  ![r].move_history = move_history2,
                                  ![r].new_fen = Some(Fen(board2)),
                                  ![r].bot_move = ans.move]
                    /\ UNCHANGED last
            ELSE /\ last' = Result("make_move", reqs[r].game_id,
                                   reqs[r].move_uci, 0, eng, TRUE,
                                   "Move successful", reqs[r].new_fen,
                                   None, ans.calls)
                 /\ reqs' = [reqs EXCEPT
                               ![r] = Returned(r, <<reqs[r].move_uci>>, 0)]
                 /\ UNCHANGED sessions

\* Lines 199-213 and 221: the result after the bot's move.
ConcMakeMoveEvaluateBot(r) ==
  /\ reqs[r].stage = "evaluate_bot"
  /\ UNCHANGED <<sessions, pc, puzzles, user_puzzles, sched>>
  /\ LET game_result2 == ResultAfterBotMove(reqs[r].board)
     IN /\ IF game_result2 /= None
             THEN games' = [games EXCEPT
                              ![reqs[r].gi] =
                                EndGame(games[reqs[r].gi],
                                        Get(game_result2),
                                        reqs[r].move_history)]
             ELSE UNCHANGED games
        /\ last' = Result("make_move", reqs[r].game_id, reqs[r].move_uci, 0,
                          NoEngine, TRUE,
                          IF game_result2 /= None
                            THEN EndedMessage(Get(game_result2))
                            ELSE "Move successful",
                          reqs[r].new_fen, reqs[r].bot_move, 1)
        /\ reqs' = [reqs EXCEPT
                      ![r] = Returned(r, <<reqs[r].move_uci,
                                           Get(reqs[r].bot_move)>>, 0)]

\* undo_move, lines 241-263: the rows are loaded and the shortened log is
\* replayed on the request's board.
ConcUndoMoveRead(r, game_id, num_moves) ==
  /\ reqs[r].stage = "idle"
  /\ UNCHANGED <<games, sessions, pc, puzzles, user_puzzles, sched>>
  /\ LET g == GetGame(game_id)
         s == GetGameSession(game_id)
         move_history == JsonLoads(sessions[Get(s)].move_history)
         new_move_history == DropLast(move_history, num_moves)
         replay == ReplayFrom(StartingBoard, new_move_history)
         Refused(message) ==
           /\ reqs' = [reqs EXCEPT ![r].begun = @ + 1]
           /\ last' = Result("undo_move", game_id, "", num_moves, NoEngine,
                             FALSE, message, None, None, 0)
     IN IF g = None THEN Refused("Game not found")
        ELSE IF s = None THEN Refused("Game session not found")
        ELSE IF NotEnoughMoves(move_history, num_moves)
          THEN Refused("Not enough moves to undo")
        ELSE IF replay = None THEN Refused("Invalid move in history")
        ELSE /\ reqs' = [reqs EXCEPT
                           ![r].stage = "undo",
                           ![r].game_id = game_id,
                           ![r].num_moves = num_moves,
                           ![r].gi = Get(g),
                           ![r].si = Get(s),
                           ![r].game = games[Get(g)],
                           ![r].board = Get(replay),
                           ![r].move_history = new_move_history,
                           ![r].new_fen = Some(Fen(Get(replay))),
                           ![r].begun = @ + 1]
             /\ UNCHANGED last

\* Lines 265-281: the commit of undo_move; the game row is written when the
\* request loaded it as ended.
ConcUndoMoveCommit(r) ==
  /\ reqs[r].stage = "undo"
  /\ sessions' = [sessions EXCEPT
                    ![reqs[r].si] = CommitSession(sessions[reqs[r].si],
                                                  Get(reqs[r].new_fen),
                                                  reqs[r].move_history)]
  /\ games' = IF reqs[r].game.status /= IN_PROGRESS
                THEN [games EXCEPT ![reqs[r].gi] = UndoGame(reqs[r].game)]
                ELSE games
  /\ last' = Result("undo_move", reqs[r].game_id, "", reqs[r].num_moves,
                    NoEngine, TRUE, "Undid move(s)", reqs[r].new_fen, None, 0)
  /\ reqs' = [reqs EXCEPT ![r] = Returned(r, <<>>, 1)]
  /\ UNCHANGED <<pc, puzzles, user_puzzles, sched>>

\* The state create_game leaves: game 1 in progress, against a human or the
\* bot, with its session.
InitConc ==
  /\ \E b \in BlackPlayerIds : games = << NewGame(1, Some(7), b) >>
  /\ sessions = << NewSession(1) >>
  /\ last = Result("init", 0, "", 0, NoEngine, TRUE, "", None, None, 0)
  /\ pc = Idle
  /\ sched = NoScheduler
  /\ reqs = [r \in ConcRequests |-> ConcIdle(<<>>, 0, 0)]
  /\ puzzles = <<>>
  /\ user_puzzles = <<>>

\* The moves submitted: legal from the starting position or after g1f3
\* (d8h4 ends the game), and one legal nowhere.
ConcMoveInputs == {"g1f3", "e2e4", "g8f6", "d8h4", "e2e5"}

\* The requests started so far.
ConcBegun == reqs[1].begun + reqs[2].begun

NextConc ==
  \E r \in ConcRequests :
    \/ \E m \in ConcMoveInputs :
         ConcBegun < MaxConcRequests /\ ConcMakeMoveRead(r, 1, m)
    \/ ConcMakeMoveCommitPly(r)
    \/ ConcMakeMoveEvaluate(r)
    \/ ConcMakeMoveAskEngine(r)
    \/ ConcMakeMoveEvaluateBot(r)
    \/ \E n \in 1 .. 2 :
         ConcBegun < MaxConcRequests /\ ConcUndoMoveRead(r, 1, n)
    \/ ConcUndoMoveCommit(r)

SpecConc == InitConc /\ [][NextConc]_vars

\* ---------------------------------------------------------------------
\* The scheduler's task lock (backend/app/utils/lock.py, Unix branch, and
\* Scheduler._run_task).  Runs 1 and 2 are threads of process 1 and share
\* its FileLock object for the task; run 3 belongs to process 2.  The lock
\* file is a path that names an inode or nothing; a file object is an open
\* file description on an inode and may hold the flock of that inode.  A
\* file object lives as long as FileLock.lock_file refers to it: when the
\* attribute is assigned anew or cleared, the object is closed and its
\* flock is gone (CPython closes a file object when its last reference
\* goes).

SchedRuns == {1, 2, 3}
SchedProcs == {1, 2}
ProcOf(run) == IF run = 3 THEN 2 ELSE 1

\* with lock(lock_name, timeout=0)
SkipTimeout == 0

\* (variant: the lock is waited for during one second)
LockTimeoutOne == SkipTimeout + 1

\* The timeout _run_task passes to lock.
LockTimeout == SkipTimeout

\* time.time() - start_time, in seconds, when the flock was refused.
Elapsed == {0, 1}

\* FileLock.__init__: lock_file = None, is_locked = False.
NewFileLock == [lock_file |-> None, is_locked |-> FALSE]

\* Process q holds the flock of the inode.
HoldsFlock(q, inode) ==
  /\ sched.objs[q].lock_file /= None
  /\ Get(sched.objs[q].lock_file).inode = inode
  /\ Get(sched.objs[q].lock_file).locked

\* The flock of the inode is held through a file object of another process
\* than p: flock(LOCK_EX | LOCK_NB) raises.
FlockRefused(p, inode) ==
  \E q \in SchedProcs \ {p} : HoldsFlock(q, inode)

\* The scheduler loop, or its start-up pass, calls _run_task.
RunStart(run) ==
  /\ sched.runs[run] = "idle"
  /\ sched' = [sched EXCEPT !.runs[run] = "acquire", !.started = @ + 1]
  /\ UNCHANGED <<games, sessions, last, pc, puzzles, user_puzzles, reqs>>

\* Line 97: self.lock_file = open(self.lock_file_path, 'a').  The file is
\* created when the path names nothing.
RunOpen(run) ==
  LET p == ProcOf(run)
      inode == IF sched.path = 0 THEN sched.inodes + 1 ELSE sched.path
  IN /\ sched.runs[run] = "acquire"
     /\ sched' = [sched EXCEPT
                    !.runs[run] = "opened",
                    !.path = inode,
                    !.inodes = IF sched.path = 0 THEN @ + 1 ELSE @,
                    !.objs[p].lock_file =
                      Some([inode |-> inode, locked |-> FALSE])]
     /\ UNCHANGED <<games, sessions, last, pc, puzzles, user_puzzles, reqs>>

\* Lines 100 and 110-126, LockManager.lock, _run_task lines 118-120: the
\* flock on the file FileLock.lock_file refers to now.  Granted: the file
\* is locked.  Refused: the file is closed, lock_file is cleared, and with
\* the timeout used up acquire returns False, lock raises RuntimeError and
\* _run_task logs and returns; with time left the run sleeps and opens
\* again.  When lock_file is None (cleared by another thread), fileno()
\* raises AttributeError, which nothing in _run_task catches.
RunFlock(run) ==
  LET p == ProcOf(run)
      obj == sched.objs[p]
  IN /\ sched.runs[run] = "opened"
     /\ UNCHANGED <<games, sessions, last, pc, puzzles, user_puzzles, reqs>>
     /\ IF obj.lock_file = None
          THEN sched' = [sched EXCEPT !.runs[run] = "idle",
                                      !.raised = @ + 1]
        ELSE IF FlockRefused(p, Get(obj.lock_file).inode)
          THEN \E elapsed \in Elapsed :
                 IF elapsed >= LockTimeout
                   THEN sched' = [sched EXCEPT
                                    !.objs[p].lock_file = None,
                                    !.runs[run] = "idle",
                                    !.skipped = @ + 1]
                   ELSE sched' = [sched EXCEPT
                                    !.objs[p].lock_file = None,
                                    !.runs[run] = "acquire",
                                    !.sleeps = @ + 1]
        ELSE sched' = [sched EXCEPT
                         !.objs[p].lock_file =
                           Some([Get(obj.lock_file) EXCEPT !.locked = TRUE]),
                         !.runs[run] = "granted"]

\* Lines 103-108: the process id is written to the file lock_file refers
\* to now, is_locked is set and acquire returns True: the run enters the
\* locked section.  When lock_file is None (cleared by another thread),
\* write raises AttributeError, which nothing in _run_task catches.
RunWritePid(run) ==
  LET p == ProcOf(run)
  IN /\ sched.runs[run] = "granted"
     /\ UNCHANGED <<games, sessions, last, pc, puzzles, user_puzzles, reqs>>
     /\ IF sched.objs[p].lock_file = None
          THEN sched' = [sched EXCEPT !.runs[run] = "idle",
                                      !.raised = @ + 1]
          ELSE sched' = [sched EXCEPT !.objs[p].is_locked = TRUE,
                                      !.runs[run] = "locked"]

\* _run_task lines 96-117: the task function under retry_on_failure; it
\* succeeds at its first call, or fails at every one of max_attempts calls.
\* last_run is set after a success; an alert is sent after a failure.
RunTask(run, succeeds) ==
  /\ sched.runs[run] = "locked"
  /\ sched' = [sched EXCEPT
                 !.runs[run] = "release",
                 !.invocations = @ + (IF succeeds THEN 1 ELSE MaxAttempts),
                 !.last_run[ProcOf(run)] = IF succeeds THEN @ + 1 ELSE @,
                 !.alerts = IF succeeds THEN @ ELSE @ + 1]
  /\ UNCHANGED <<games, sessions, last, pc, puzzles, user_puzzles, reqs>>

\* release, lines 130-136: when is_locked is set, the file lock_file refers
\* to (if any) is unlocked and closed and lock_file is cleared; otherwise
\* release does nothing.
RunRelease(run) ==
  LET p == ProcOf(run)
  IN /\ sched.runs[run] = "release"
     /\ sched' = IF sched.objs[p].is_locked
                   THEN [sched EXCEPT !.objs[p].lock_file = None,
                                      !.runs[run] = "reset"]
                   ELSE [sched EXCEPT !.runs[run] = "idle"]
     /\ UNCHANGED <<games, sessions, last, pc, puzzles, user_puzzles, reqs>>

\* release, line 138: self.is_locked = False.
RunReset(run) ==
  /\ sched.runs[run] = "reset"
  /\ sched' = [sched EXCEPT !.objs[ProcOf(run)].is_locked = FALSE,
                            !.runs[run] = "unlink"]
  /\ UNCHANGED <<games, sessions, last, pc, puzzles, user_puzzles, reqs>>

\* release, lines 140-145: the lock file is removed when it exists.
RunUnlink(run) ==
  /\ sched.runs[run] = "unlink"
  /\ sched' = [sched EXCEPT !.runs[run] = "idle", !.path = 0]
  /\ UNCHANGED <<games, sessions, last, pc, puzzles, user_puzzles, reqs>>

\* Two schedulers with the task registered; no lock file yet.
InitSched ==
  /\ games = <<>> /\ sessions = <<>>
  /\ last = Result("init", 0, "", 0, NoEngine, TRUE, "", None, None, 0)
  /\ pc = Idle
  /\ reqs = NoRequests
  /\ puzzles = <<>>
  /\ user_puzzles = <<>>
  /\ sched = [path |-> 0, inodes |-> 0,
              objs |-> [p \in SchedProcs |-> NewFileLock],
              runs |-> [run \in SchedRuns |-> "idle"],
              started |-> 0, invocations |-> 0, alerts |-> 0,
              last_run |-> [p \in SchedProcs |-> 0],
              sleeps |-> 0, skipped |-> 0, raised |-> 0]

NextSched ==
  \E run \in SchedRuns :
    \/ sched.started < MaxSchedRuns /\ RunStart(run)
    \/ RunOpen(run)
    \/ RunFlock(run)
    \/ RunWritePid(run)
    \/ \E succeeds \in BOOLEAN : RunTask(run, succeeds)
    \/ RunRelease(run)
    \/ RunReset(run)
    \/ RunUnlink(run)

SpecSched == InitSched /\ [][NextSched]_vars

\* ------------------------------------------------------------------------
\* Properties

\* The rows of a game as the service reads them.
GameRow(game_id) == games[Get(GetGame(game_id))]
SessionRow(game_id) == sessions[Get(GetGameSession(game_id))]
HasRows(game_id) == GetGame(game_id) /= None /\ GetGameSession(game_id) /= None
FenOf(game_id) == SessionRow(game_id).current_fen

\* The board after playing the moves, in order, from the starting position.
RECURSIVE PositionAfter(_)
PositionAfter(moves) ==
  IF moves = <<>> THEN StartingBoard
  ELSE Push(PositionAfter(SubSeq(moves, 1, Len(moves) - 1)), moves[Len(moves)])

\* Every move of the list is legal in the position the moves before it give.
LegalLine(moves) ==
  \A i \in 1 .. Len(moves) :
    moves[i] \in LegalMoves(PositionAfter(SubSeq(moves, 1, i - 1)))

\* C1: in every state reached by create_game, make_move (failed or not, with
\* or without a bot reply) and undo_move (failed or not), replaying the
\* stored move log of every session from the starting position gives
\* exactly the stored position encoding.
SessionRoundTrip ==
  \A i \in 1 .. Len(sessions) :
    /\ LegalLine(JsonLoads(sessions[i].move_history))
    /\ sessions[i].current_fen =
         Fen(PositionAfter(JsonLoads(sessions[i].move_history)))

SessionRoundTripWitness ==
  /\ last.op = "make_move" /\ last.success /\ last.bot_move /= None
  /\ Len(LogOf(1)) >= 4

\* C2: a make_move on an in-progress game with a move that is malformed or
\* not legal in the stored position fails as an invalid move, changes no
\* game row and no session row, and asks the engine for nothing.
LegalityGate ==
  [][ ( /\ last'.op = "make_move"
        /\ HasRows(last'.game_id)
        /\ GameRow(last'.game_id).status = IN_PROGRESS
        /\ \/ last'.move \in MalformedUci
           \/ last'.move \notin LegalMoves(ParseFen(FenOf(last'.game_id))) )
      => ( /\ ~last'.success
           /\ last'.message \in {"Invalid move", "Invalid move format"}
           /\ games' = games
           /\ sessions' = sessions
           /\ last'.engine_calls = 0
           /\ last'.bot_move = None ) ]_vars

LegalityGateWitness ==
  /\ last.op = "make_move" /\ ~last.success /\ last.message = "Invalid move"
  /\ HasRows(1) /\ GameRow(1).status = IN_PROGRESS
  /\ last.move \in {e.uci : e \in Edges}
  /\ Len(LogOf(1)) >= 1

\* C3: while a game's status is not in-progress, every make_move on it,
\* legal move or not, fails with "Game is not in progress" and leaves the
\* session (position and log) as it was.
TerminationIdempotence ==
  [][ ( /\ last'.op = "make_move"
        /\ GetGame(last'.game_id) /= None
        /\ GameRow(last'.game_id).status /= IN_PROGRESS )
      => ( /\ ~last'.success
           /\ last'.message = "Game is not in progress"
           /\ sessions' = sessions
           /\ games' = games ) ]_vars

TerminationIdempotenceWitness ==
  /\ last.op = "make_move" /\ ~last.success
  /\ last.message = "Game is not in progress"
  /\ last.prior_status = DRAW
  /\ HasRows(1) /\ GameRow(1).status = DRAW
  /\ last.move \in LegalMoves(ParseFen(FenOf(1)))

\* C4: a successful undo_move(count) with 1 <= count <= L on a log of
\* length L stores the first L-count moves of the old log and the position
\* obtained by playing exactly those moves from the starting position;
\* count = L gives the starting position and the empty log.
UndoInvertsExactly ==
  [][ \A id \in GameIds :
      ( /\ last'.op = "undo_move" /\ last'.success /\ last'.game_id = id
        /\ 1 <= last'.count /\ last'.count <= Len(LogOf(id)) )
      => LET old == LogOf(id)
             keep == SubSeq(old, 1, Len(old) - last'.count)
         IN /\ LogOf(id)' = keep
            /\ FenOf(id)' = Fen(PositionAfter(keep))
            /\ (last'.count = Len(old) =>
                  /\ LogOf(id)' = <<>>
                  /\ FenOf(id)' = Fen(StartingBoard)) ]_vars

UndoInvertsExactlyWitness ==
  /\ last.op = "undo_move" /\ last.success /\ last.count = 2
  /\ Len(LogOf(1)) >= 1

\* C5: a successful undo_move on a game that was not in progress leaves it
\* in progress with no end timestamp and no final record; on a game in
\* progress it leaves the three fields as they were.
UndoUnterminates ==
  [][ \A id \in GameIds :
      (last'.op = "undo_move" /\ last'.success /\ last'.game_id = id)
      => IF GameRow(id).status /= IN_PROGRESS
           THEN /\ GameRow(id)'.status = IN_PROGRESS
                /\ GameRow(id)'.ended_at = None
                /\ GameRow(id)'.pgn = None
           ELSE /\ GameRow(id)'.status = GameRow(id).status
                /\ GameRow(id)'.ended_at = GameRow(id).ended_at
                /\ GameRow(id)'.pgn = GameRow(id).pgn ]_vars

UndoUnterminatesWitness ==
  /\ last.op = "undo_move" /\ last.success
  /\ last.prior_status \in {WHITE_WON, BLACK_WON, DRAW}
  /\ HasRows(1) /\ GameRow(1).status = IN_PROGRESS
  /\ GameRow(1).pgn = None /\ GameRow(1).ended_at = None

\* C6: in every stored state a game's status differs from in-progress
\* exactly when its end timestamp is set and exactly when its final record
\* is set.
TerminalFieldsTogether ==
  \A i \in 1 .. Len(games) :
    /\ (games[i].status /= IN_PROGRESS) <=> (games[i].ended_at /= None)
    /\ (games[i].status /= IN_PROGRESS) <=> (games[i].pgn /= None)

TerminalFieldsTogetherWitness ==
  /\ HasRows(1)
  /\ GameRow(1).status /= IN_PROGRESS
  /\ GameRow(1).ended_at /= None
  /\ GameRow(1).pgn /= None

\* A terminal condition that the position itself shows: checkmate,
\* stalemate, insufficient material or the halfmove clock at the limit.
PositionTerminal(board) ==
  \/ IsCheckmate(board)
  \/ IsStalemate(board)
  \/ IsInsufficientMaterial(board)
  \/ board.halfmove_clock >= HalfmoveLimit

\* C7: in one successful make_move, if the position after the human ply is
\* terminal the game is ended with the log up to that ply and no bot move
\* is asked for or returned; otherwise, if a bot reply is applied and the
\* position after it is terminal, the same make_move sets the terminal
\* status, the end timestamp and the record of the log including the bot
\* move, and returns the bot move with the position after it.
TerminationAfterEachPly ==
  [][ \A id \in GameIds :
      (last'.op = "make_move" /\ last'.success /\ last'.game_id = id)
      => LET board1 == Push(ParseFen(FenOf(id)), last'.move)
             log1 == Append(LogOf(id), last'.move)
         IN IF PositionTerminal(board1)
              THEN /\ GameRow(id)'.status /= IN_PROGRESS
                   /\ GameRow(id)'.ended_at /= None
                   /\ GameRow(id)'.pgn = Some(log1)
                   /\ LogOf(id)' = log1
                   /\ last'.bot_move = None
                   /\ last'.engine_calls = 0
                   /\ last'.new_fen = Some(Fen(board1))
              ELSE ( /\ last'.bot_move /= None
                     /\ PositionTerminal(Push(board1, Get(last'.bot_move))) )
                   => /\ GameRow(id)'.status /= IN_PROGRESS
                      /\ GameRow(id)'.ended_at /= None
                      /\ GameRow(id)'.pgn =
                           Some(Append(log1, Get(last'.bot_move)))
                      /\ LogOf(id)' = Append(log1, Get(last'.bot_move))
                      /\ last'.new_fen =
                           Some(Fen(Push(board1, Get(last'.bot_move)))) ]_vars

TerminationAfterEachPlyWitness ==
  /\ last.op = "make_move" /\ last.success /\ last.bot_move /= None
  /\ HasRows(1) /\ GameRow(1).status /= IN_PROGRESS
  /\ GameRow(1).pgn = Some(LogOf(1))

\* The status the claim of C8 gives for the mover of a mating ply.
WinnerStatus(mover) == IF mover = WHITE THEN WHITE_WON ELSE BLACK_WON

\* C8: when a ply applied by make_move (the human's or the bot's) gives
\* checkmate the stored status names the side that made the ply; when it
\* gives stalemate, insufficient material or - without checkmate - a
\* halfmove clock at the limit, the stored status is draw.
OutcomeMapping ==
  [][ \A id \in GameIds :
      (last'.op = "make_move" /\ last'.success /\ last'.game_id = id)
      => LET before == ParseFen(FenOf(id))
             board1 == Push(before, last'.move)
             Mapped(mover, board) ==
               /\ IsCheckmate(board) => GameRow(id)'.status = WinnerStatus(mover)
               /\ ( \/ IsStalemate(board)
                    \/ IsInsufficientMaterial(board)
                    \/ (board.halfmove_clock >= HalfmoveLimit
                        /\ ~IsCheckmate(board)) )
                  => GameRow(id)'.status = DRAW
         IN /\ Mapped(before.turn, board1)
            /\ last'.bot_move /= None
                 => Mapped(board1.turn, Push(board1, Get(last'.bot_move))) ]_vars

OutcomeMappingWitness ==
  /\ last.op = "make_move" /\ last.success
  /\ HasRows(1) /\ GameRow(1).status = DRAW
  /\ ParseFen(FenOf(1)).halfmove_clock >= HalfmoveLimit

\* C8 as stated: a halfmove clock at the limit gives draw also when the ply
\* gives checkmate.
OutcomeMappingAsStated ==
  [][ \A id \in GameIds :
      (last'.op = "make_move" /\ last'.success /\ last'.game_id = id)
      => LET before == ParseFen(FenOf(id))
             board1 == Push(before, last'.move)
             Mapped(mover, board) ==
               /\ IsCheckmate(board) => GameRow(id)'.status = WinnerStatus(mover)
               /\ ( \/ IsStalemate(board)
                    \/ IsInsufficientMaterial(board)
                    \/ board.halfmove_clock >= HalfmoveLimit )
                  => GameRow(id)'.status = DRAW
         IN /\ Mapped(before.turn, board1)
            /\ last'.bot_move /= None
                 => Mapped(board1.turn, Push(board1, Get(last'.bot_move))) ]_vars

\* C9: when a successful make_move leaves a log whose last position occurs
\* for the third time in the game, the game is a draw and has its final
\* record.
RepetitionDraw ==
  ( /\ last.op = "make_move" /\ last.success
    /\ HasRows(last.game_id)
    /\ IsRepetition(PositionAfter(LogOf(last.game_id)), RepetitionCount) )
  => /\ GameRow(last.game_id).status = DRAW
     /\ GameRow(last.game_id).pgn /= None

\* C10: in every successful make_move the engine is asked exactly when the
\* game has no black player, black is to move after the human ply and the
\* human ply did not end the game; a bot reply is made (appended to the log
\* and returned) exactly when the engine was asked and produced a move.
BotTurnPredicate ==
  [][ \A id \in GameIds :
      (last'.op = "make_move" /\ last'.success /\ last'.game_id = id)
      => LET board1 == Push(ParseFen(FenOf(id)), last'.move)
             log1 == Append(LogOf(id), last'.move)
             asked == last'.engine_calls > 0
             replied == /\ last'.bot_move /= None
                        /\ LogOf(id)' = Append(log1, Get(last'.bot_move))
         IN /\ asked <=> ( /\ GameRow(id).black_player_id = None
                           /\ board1.turn = BLACK
                           /\ GetGameResult(board1) = None )
            /\ replied <=> (asked /\ last'.engine.final = "move")
            /\ ~replied => (last'.bot_move = None /\ LogOf(id)' = log1) ]_vars

BotTurnPredicateWitness ==
  /\ last.op = "make_move" /\ last.success /\ last.bot_move = None
  /\ HasRows(1)
  /\ GameRow(1).black_player_id = None
  /\ ParseFen(FenOf(1)).turn = BLACK
  /\ GameRow(1).status = WHITE_WON

\* C10 as stated: a bot reply is made exactly when the game has no black
\* player and black is to move after the human ply.
BotTurnPredicateAsStated ==
  [][ \A id \in GameIds :
      (last'.op = "make_move" /\ last'.success /\ last'.game_id = id)
      => LET board1 == Push(ParseFen(FenOf(id)), last'.move)
             replied == /\ last'.bot_move /= None
                        /\ LogOf(id)' =
                             Append(Append(LogOf(id), last'.move),
                                    Get(last'.bot_move))
         IN replied <=> ( /\ GameRow(id).black_player_id = None
                          /\ board1.turn = BLACK ) ]_vars

\* C11: in a make_move that passed the checks, every step after the first
\* commit - the evaluation of the result, the request to the engine, the
\* evaluation after the bot's move, or the request stopping - starts from a
\* stored session that holds the human ply (the log with the move appended
\* and, until the bot's move is committed, the position after the move),
\* and the step leaves the human ply in the stored log.
PersistBeforeEvaluate ==
  [][ \A id \in GameIds :
      (pc.stage \in {"evaluate", "engine", "evaluate_bot"} /\ pc.game_id = id)
      => LET log == LogOf(id)
             k == IF pc.stage = "evaluate_bot" THEN Len(log) - 1 ELSE Len(log)
         IN /\ k >= 1
            /\ log[k] = pc.move_uci
            /\ FenOf(id) = Fen(PositionAfter(log))
            /\ pc.stage = "evaluate_bot" => log[k + 1] = Get(pc.bot_move)
            /\ GameRow(id).status = IN_PROGRESS
            /\ Len(LogOf(id)') >= k
            /\ SubSeq(LogOf(id)', 1, k) = SubSeq(log, 1, k) ]_vars

PersistBeforeEvaluateWitness ==
  /\ last.op = "make_move" /\ last.message = "stopped"
  /\ last.engine_calls = 0 /\ last.bot_move = None
  /\ pc = Idle
  /\ HasRows(1) /\ GameRow(1).status = IN_PROGRESS
  /\ Len(LogOf(1)) >= 1
  /\ LogOf(1)[Len(LogOf(1))] = last.move
  /\ GetGameResult(PositionAfter(LogOf(1))) /= None

\* C12: when a make_move passes the checks, the game has no black player,
\* black is to move after the human ply and the ply did not end the game,
\* the engine is asked; if it gives no move or its calls raise, make_move
\* returns success without a bot move after at most MaxAttempts engine
\* calls, the stored log is the old log with the human ply appended, the
\* stored position is the one after the human ply and the game stays in
\* progress.
EngineDegradation ==
  [][ \A id \in GameIds :
      ( /\ last'.op = "make_move" /\ last'.game_id = id
        /\ HasRows(id)
        /\ GameRow(id).status = IN_PROGRESS
        /\ last'.move \in LegalMoves(ParseFen(FenOf(id)))
        /\ GameRow(id).black_player_id = None
        /\ Push(ParseFen(FenOf(id)), last'.move).turn = BLACK
        /\ GetGameResult(Push(ParseFen(FenOf(id)), last'.move)) = None )
      => /\ last'.engine_calls >= 1
         /\ last'.engine.final /= "move"
              => /\ last'.success
                 /\ last'.bot_move = None
                 /\ last'.engine_calls <= MaxAttempts
                 /\ last'.new_fen =
                      Some(Fen(Push(ParseFen(FenOf(id)), last'.move)))
                 /\ LogOf(id)' = Append(LogOf(id), last'.move)
                 /\ FenOf(id)' = Fen(Push(ParseFen(FenOf(id)), last'.move))
                 /\ GameRow(id)'.status = IN_PROGRESS
                 /\ GameRow(id)'.ended_at = None ]_vars

EngineDegradationWitness ==
  /\ last.op = "make_move" /\ last.success /\ last.bot_move = None
  /\ last.engine.final = "engine_error"
  /\ last.engine_calls = MaxAttempts
  /\ HasRows(1) /\ GameRow(1).status = IN_PROGRESS
  /\ GameRow(1).black_player_id = None
  /\ ParseFen(FenOf(1)).turn = BLACK
  /\ LogOf(1)[Len(LogOf(1))] = last.move

\* C17: in every stored state, also after commits of create_game failed
\* and the recovery wrapper ran create_game again, every game row has
\* exactly one session row (so get_game_session finds a session for every
\* game that get_game finds).
OneSessionPerGame ==
  \A i \in 1 .. Len(games) :
    /\ Cardinality({j \in 1 .. Len(sessions) :
                      sessions[j].game_id = games[i].id}) = 1
    /\ GetGameSession(games[i].id) /= None

\* C13: an undo_move whose count is greater than the length of the stored
\* log fails with "Not enough moves to undo", an undo_move for a game that
\* does not exist or has no session fails with a not-found message, and in
\* both cases no game row and no session row changes (position, log,
\* status, end timestamp and record stay as they were).
UndoRefusals ==
  [][ \A id \in FaultGameIds :
      (last'.op = "undo_move" /\ last'.game_id = id)
      => /\ GetGame(id) = None
              => /\ ~last'.success
                 /\ last'.message = "Game not found"
                 /\ games' = games /\ sessions' = sessions
         /\ (GetGame(id) /= None /\ GetGameSession(id) = None)
              => /\ ~last'.success
                 /\ last'.message = "Game session not found"
                 /\ games' = games /\ sessions' = sessions
         /\ (HasRows(id) /\ last'.count > Len(LogOf(id)))
              => /\ ~last'.success
                 /\ last'.message = "Not enough moves to undo"
                 /\ games' = games /\ sessions' = sessions ]_vars

UndoRefusalsWitness ==
  /\ last.op = "undo_move" /\ ~last.success
  /\ last.message = "Not enough moves to undo"
  /\ HasRows(last.game_id)
  /\ Len(LogOf(last.game_id)) >= 1
  /\ last.count = Len(LogOf(last.game_id)) + 1
  /\ GameRow(last.game_id).status /= IN_PROGRESS
  /\ GetGame(1) /= None /\ GetGameSession(1) = None

\* C14: when an undo_move passes the length test and the moves it keeps
\* are all well-formed but one of them is not legal in the position the
\* moves before it give, undo_move fails and changes no game row and no
\* session row.
CorruptLogDetected ==
  [][ \A id \in GameIds :
      ( /\ last'.op = "undo_move" /\ last'.game_id = id
        /\ HasRows(id)
        /\ 1 <= last'.count /\ last'.count <= Len(LogOf(id))
        /\ LET keep == SubSeq(LogOf(id), 1, Len(LogOf(id)) - last'.count)
           IN /\ \A i \in 1 .. Len(keep) : keep[i] \in WellFormedUci
              /\ ~LegalLine(keep) )
      => /\ ~last'.success
         /\ games' = games
         /\ sessions' = sessions ]_vars

\* C18: a make_move on an in-progress game whose stored position does not
\* parse fails and changes nothing, its message is none of the user-error
\* messages, and the status code of the HTTP response differs from the
\* status code of the response to every user error.
CorruptStateDistinct ==
  [][ \A id \in GameIds :
      ( /\ last'.op = "make_move" /\ last'.game_id = id
        /\ HasRows(id)
        /\ GameRow(id).status = IN_PROGRESS
        /\ ~IsValidFen(FenOf(id)) )
      => /\ ~last'.success
         /\ games' = games
         /\ sessions' = sessions
         /\ last'.message \notin UserErrorMessages
         /\ \A m \in UserErrorMessages :
              MakeMoveEndpoint(last'.success, last'.message).status_code
                /= MakeMoveEndpoint(FALSE, m).status_code ]_vars

\* C15: right after a successful create_game the game exists, is in
\* progress, has no end timestamp and no record, and the session the
\* service reads for it holds the starting position and the empty log.
CreateGamePostcondition ==
  [][ \A id \in GameIds :
      (last'.op = "create_game" /\ last'.success /\ last'.game_id = id)
      => /\ GetGame(id) = None
         /\ HasRows(id)'
         /\ GameRow(id)'.status = IN_PROGRESS
         /\ GameRow(id)'.ended_at = None
         /\ GameRow(id)'.pgn = None
         /\ FenOf(id)' = Fen(StartingBoard)
         /\ LogOf(id)' = <<>>
         /\ IsValidFen(FenOf(id)')
         /\ ParseFen(FenOf(id)') = StartingBoard ]_vars

CreateGamePostconditionWitness ==
  /\ last.op = "create_game" /\ last.success /\ last.game_id = 1
  /\ HasRows(1)
  /\ GameRow(1).status = IN_PROGRESS
  /\ LogOf(1) = <<>>

\* C16: every create_game of the service and every POST /games with
\* is_bot_game true, whatever black player is given, stores a game without
\* a black player.
BotFlagForcesNoBlack ==
  [][ \A w \in WhitePlayerIds, b \in BlackPlayerIds :
      (CreateGame(w, b, TRUE) \/ CreateGameEndpoint(w, b, TRUE))
      => GameRow(1)'.black_player_id = None ]_vars

\* A stored puzzle whose solution is not empty and is legal, move after
\* move, from its position (the starting position).
ValidPuzzle(puzzle) ==
  /\ puzzle.fen = Fen(StartingBoard)
  /\ SolutionMoves(puzzle.moves) /= <<>>
  /\ LegalLine(SolutionMoves(puzzle.moves))

\* C19: for a puzzle with a valid solution, when the moves submitted so far
\* are the first k solution moves in order, the answer to the k-th of them
\* is correct; it is not complete and names solution move k+1 as the next
\* move when k is less than the length of the solution, and it is complete
\* when k is the length of the solution.
PuzzleProgress ==
  ( /\ last.op = "attempt_puzzle" /\ last.puzzle_id = 1
    /\ GetPuzzle(1) /= None
    /\ ValidPuzzle(puzzles[Get(GetPuzzle(1))])
    /\ Len(last.history) <= Len(SolutionMoves(puzzles[Get(GetPuzzle(1))].moves))
    /\ last.history =
         SubSeq(SolutionMoves(puzzles[Get(GetPuzzle(1))].moves),
                1, Len(last.history)) )
  => LET solution == SolutionMoves(puzzles[Get(GetPuzzle(1))].moves)
         k == Len(last.history)
     IN /\ last.correct
        /\ k < Len(solution)
             => (~last.is_complete /\ last.next_move = Some(solution[k + 1]))
        /\ k = Len(solution) => last.is_complete

\* C20: for a puzzle with a valid solution of which the first k moves, and
\* no more, were submitted in order (k less than the length of the
\* solution), an attempt with a move other than solution move k+1 is
\* answered not correct and not complete; no attempt changes the puzzles
\* table.
PuzzleDeviation ==
  [][ ( /\ last'.op = "attempt_puzzle" /\ last'.puzzle_id = 1
        /\ GetPuzzle(1) /= None
        /\ ValidPuzzle(puzzles[Get(GetPuzzle(1))])
        /\ Len(Submitted) < Len(SolutionMoves(puzzles[Get(GetPuzzle(1))].moves))
        /\ Submitted =
             SubSeq(SolutionMoves(puzzles[Get(GetPuzzle(1))].moves),
                    1, Len(Submitted))
        /\ last'.move /=
             SolutionMoves(puzzles[Get(GetPuzzle(1))].moves)[Len(Submitted) + 1] )
      => /\ ~last'.correct
         /\ ~last'.is_complete
         /\ puzzles' = puzzles ]_vars

\* The position reached from board by the moves, applied in order.
RECURSIVE PlayFrom(_, _)
PlayFrom(board, moves) ==
  IF moves = <<>> THEN board
  ELSE Push(PlayFrom(board, SubSeq(moves, 1, Len(moves) - 1)),
            moves[Len(moves)])

\* The first k moves are well-formed and legal when applied in order from
\* board.
LegalPrefix(board, moves, k) ==
  \A i \in 1 .. k :
    /\ moves[i] \in WellFormedUci
    /\ moves[i] \in LegalMoves(PlayFrom(board, SubSeq(moves, 1, i - 1)))

\* The length of the longest such prefix.
LongestLegalPrefix(board, moves) ==
  CHOOSE k \in 0 .. Len(moves) :
    /\ LegalPrefix(board, moves, k)
    /\ k < Len(moves) => ~LegalPrefix(board, moves, k + 1)

\* The stored puzzle 1 has a solution and a position that parses.
Replayable == 
  /\ GetPuzzle(1) /= None
  /\ SolutionMoves(puzzles[Get(GetPuzzle(1))].moves) /= <<>>
  /\ IsValidFen(puzzles[Get(GetPuzzle(1))].fen)

\* The progress pointer of the stored puzzle 1, by the longest legal prefix.
Pointer ==
  LongestLegalPrefix(ParseFen(puzzles[Get(GetPuzzle(1))].fen),
                     SolutionMoves(puzzles[Get(GetPuzzle(1))].moves))

\* C21: when the progress pointer of the puzzle equals the length of its
\* solution, every attempt (whatever the submitted string and the user) is
\* answered not correct, complete and without a next move, and changes no
\* statistic row.
AlreadySolvedShortCircuit ==
  [][ ( /\ last'.op = "attempt_puzzle" /\ last'.puzzle_id = 1
        /\ Replayable
        /\ Pointer = Len(SolutionMoves(puzzles[Get(GetPuzzle(1))].moves)) )
      => /\ ~last'.correct
         /\ last'.is_complete
         /\ last'.next_move = None
         /\ user_puzzles' = user_puzzles ]_vars

\* A malformed string was submitted by an identified user to a puzzle whose
\* whole solution replays; an expected move submitted to such a puzzle at
\* another position than the starting one.
AlreadySolvedShortCircuitWitness ==
  /\ last.op = "attempt_puzzle" /\ last.puzzle_id = 1
  /\ Replayable
  /\ Pointer = Len(SolutionMoves(puzzles[Get(GetPuzzle(1))].moves))
  /\ Truthy(last.user_id)
  /\ Len(last.history) = 2
  /\ last.history[1] = "e2"
  /\ last.history[2] = SolutionMoves(puzzles[Get(GetPuzzle(1))].moves)[1]
  /\ puzzles[Get(GetPuzzle(1))].fen /= Fen(StartingBoard)
  /\ last.message = "Puzzle already solved"

\* C30: the progress pointer attempt_puzzle computes is the length of the
\* longest prefix of the stored solution whose moves are well-formed and
\* legal in order from the puzzle's position; it is the same for every
\* attempt on the puzzle, whatever was submitted before and now.
PointerByReplay ==
  [][ ( /\ last'.op = "attempt_puzzle" /\ last'.puzzle_id = 1
        /\ Replayable )
      => /\ last'.index = Some(Pointer)
         /\ (last.op = "attempt_puzzle" /\ last.puzzle_id = 1)
              => last'.index = last.index ]_vars

\* A second attempt, with another string than the first, on a puzzle whose
\* solution stops replaying at an illegal move after the first one.
PointerByReplayWitness ==
  /\ last.op = "attempt_puzzle" /\ last.puzzle_id = 1
  /\ Replayable
  /\ Len(last.history) = 2 /\ last.history[1] /= last.history[2]
  /\ last.index = Some(1)
  /\ Len(SolutionMoves(puzzles[Get(GetPuzzle(1))].moves)) = 2
  /\ SolutionMoves(puzzles[Get(GetPuzzle(1))].moves)[2] \in WellFormedUci

\* The attempt just answered compared a well-formed move with the expected
\* move of puzzle 1.
Compared(answer) ==
  /\ answer.op = "attempt_puzzle" /\ answer.puzzle_id = 1
  /\ answer.message \in {"Correct move!", "Incorrect move. Try again!"}

\* The step adds 1 to one counter of the first row of (user_id, puzzle 1),
\* solved on a match and failed on a mismatch, creating the row when there
\* is none, and changes no other row.
CountsOne(user_id, correct) ==
  LET found == { i \in 1 .. Len(user_puzzles) :
                   /\ user_puzzles[i].user_id = user_id
                   /\ user_puzzles[i].puzzle_id = 1 }
      ds == IF correct THEN 1 ELSE 0
  IN IF found = {}
       THEN /\ Len(user_puzzles') = Len(user_puzzles) + 1
            /\ \A i \in 1 .. Len(user_puzzles) :
                 user_puzzles'[i] = user_puzzles[i]
            /\ user_puzzles'[Len(user_puzzles')].user_id = user_id
            /\ user_puzzles'[Len(user_puzzles')].puzzle_id = 1
            /\ user_puzzles'[Len(user_puzzles')].solved = ds
            /\ user_puzzles'[Len(user_puzzles')].failed = 1 - ds
       ELSE /\ Len(user_puzzles') = Len(user_puzzles)
            /\ \E i \in found :
                 /\ user_puzzles'[i].solved = user_puzzles[i].solved + ds
                 /\ user_puzzles'[i].failed = user_puzzles[i].failed + 1 - ds
                 /\ user_puzzles'[i].user_id = user_id
                 /\ user_puzzles'[i].puzzle_id = 1
                 /\ \A j \in 1 .. Len(user_puzzles) :
                      j /= i => user_puzzles'[j] = user_puzzles[j]

\* C22: an attempt that compares a well-formed move with the expected move
\* adds, when a user id is supplied, exactly 1 to exactly one counter of
\* that (user, puzzle) row (solved on a match, failed on a mismatch) and
\* changes no other row; without a user id it changes no row.
StatisticRecorded ==
  [][ Compared(last')
      => IF last'.user_id = None
           THEN user_puzzles' = user_puzzles
           ELSE \A u \in {Get(x) : x \in UserIds \ {None}} :
                  (last'.user_id = Some(u)) => CountsOne(u, last'.correct) ]_vars

\* The rows of user_puzzles for (user_id, puzzle 1).
StatRows(user_id) ==
  { i \in 1 .. Len(user_puzzles) :
      /\ user_puzzles[i].user_id = user_id
      /\ user_puzzles[i].puzzle_id = 1 }

\* The solved and failed counters of (user_id, puzzle 1); 0 without a row.
SolvedOf(user_id) ==
  IF StatRows(user_id) = {} THEN 0
  ELSE user_puzzles[CHOOSE i \in StatRows(user_id) : TRUE].solved

FailedOf(user_id) ==
  IF StatRows(user_id) = {} THEN 0
  ELSE user_puzzles[CHOOSE i \in StatRows(user_id) : TRUE].failed

\* The attempt just answered was recorded for user_id: _update_user_stats
\* was called for (user_id, puzzle 1).
Recorded(answer, user_id) ==
  /\ Compared(answer)
  /\ Truthy(answer.user_id)
  /\ answer.user_id = Some(user_id)

\* C23: with attempts executed one at a time, the solved and failed
\* counters of a (user, puzzle) pair never decrease, and solved + failed
\* grows by 1 with each attempt recorded for the pair and with nothing else:
\* starting without a row, the row appears with the first recorded attempt
\* and solved + failed is the number of recorded attempts at every point.
StatsMonotonic ==
  [][ \A u \in {Get(x) : x \in UserIds \ {None}} :
        /\ SolvedOf(u)' >= SolvedOf(u)
        /\ FailedOf(u)' >= FailedOf(u)
        /\ SolvedOf(u)' + FailedOf(u)' =
             SolvedOf(u) + FailedOf(u) + (IF Recorded(last', u) THEN 1 ELSE 0)
        /\ (StatRows(u) = {} /\ ~Recorded(last', u)) => StatRows(u)' = {}
        /\ Cardinality(StatRows(u)') <= 1 ]_vars

\* A pair with one solved and one failed attempt recorded.
StatsMonotonicWitness ==
  \E u \in {Get(x) : x \in UserIds \ {None}} :
    /\ SolvedOf(u) = 1 /\ FailedOf(u) = 1
    /\ Recorded(last, u)

\* The sum of a counter over the difficulty groups of a dictionary.
RECURSIVE GroupSum(_, _, _)
GroupSum(groups, difficulties, counter) ==
  IF difficulties = {} THEN 0
  ELSE LET d == CHOOSE x \in difficulties : TRUE
       IN groups[d][counter] + GroupSum(groups, difficulties \ {d}, counter)

\* The sum of a counter over the rows of a user, row by row.
RECURSIVE RowSum(_, _, _)
RowSum(user_id, n, counter) ==
  IF n = 0 THEN 0
  ELSE RowSum(user_id, n - 1, counter)
       + (IF user_puzzles[n].user_id = user_id
            THEN user_puzzles[n][counter] ELSE 0)

\* C25: the statistics returned for a user have total_solved and
\* total_failed equal to the sums of the solved and failed counters of the
\* user's rows, a success rate of 0.0 when the user has no attempts, and
\* per-difficulty sums that add up, over all groups, to total_solved and
\* total_failed.
StatsAggregation ==
  last.op = "get_user_stats"
  => /\ last.total_solved =
          RowSum(last.user_id, Len(user_puzzles), "solved")
     /\ last.total_failed =
          RowSum(last.user_id, Len(user_puzzles), "failed")
     /\ (last.total_solved + last.total_failed = 0) => last.success_rate = 0
     /\ GroupSum(last.puzzles_by_difficulty,
                 DOMAIN last.puzzles_by_difficulty, "solved")
          = last.total_solved
     /\ GroupSum(last.puzzles_by_difficulty,
                 DOMAIN last.puzzles_by_difficulty, "failed")
          = last.total_failed

\* Statistics of a user with rows for three puzzles, two of them of one
\* difficulty, next to a row of another user.
StatsAggregationWitness ==
  /\ last.op = "get_user_stats" /\ last.user_id = 5
  /\ Len(user_puzzles) = 4
  /\ Cardinality(DOMAIN last.puzzles_by_difficulty) = 2
  /\ last.total_solved = 3 /\ last.total_failed = 2

\* C24: once two concurrent recorded attempts of one user on one puzzle
\* have both committed, the pair has at most one statistic row and its
\* solved + failed is the number of recorded attempts.
StatsUnderConcurrency ==
  (\A r \in RaceRequests : reqs[r].stage = "idle")
  => \A u \in StatUserIds :
       /\ Cardinality(StatRows(u)) <= 1
       /\ RowSum(u, Len(user_puzzles), "solved")
          + RowSum(u, Len(user_puzzles), "failed")
            = reqs[1].done[u] + reqs[2].done[u]

\* C26: with two requests (make_move and make_move, or make_move and
\* undo_move) interleaved on one game, in every stored state the position
\* of the session row is the position reached by playing its move log from
\* the starting position.
ConcurrentSessionInvariant ==
  \A i \in 1 .. Len(sessions) :
    sessions[i].current_fen =
      Fen(PlayFrom(StartingBoard, JsonLoads(sessions[i].move_history)))

\* Two make_move requests that loaded the same log have both committed and
\* returned: each reports a ply and the log holds one.
ConcurrentSessionInvariantWitness ==
  /\ \A r \in ConcRequests : reqs[r].stage = "idle" /\ reqs[r].undos = 0
  /\ Len(reqs[1].applied) = 1 /\ Len(reqs[2].applied) = 1
  /\ Len(LogOf(1)) = 1

\* C27: once all requests have returned, every ply a make_move reported as
\* applied (the human ply and a returned bot reply) is in the stored move
\* log, unless an undo_move was committed.
AppliedPliesStored ==
  (\A r \in ConcRequests : reqs[r].stage = "idle" /\ reqs[r].undos = 0)
  => \A r \in ConcRequests :
       \A i \in 1 .. Len(reqs[r].applied) :
         \E j \in 1 .. Len(LogOf(1)) : LogOf(1)[j] = reqs[r].applied[i]

\* The runs of the task that are inside the locked section of _run_task.
InSection == {run \in SchedRuns : sched.runs[run] = "locked"}

\* C28: at no time are two runs of the task inside the locked section,
\* whether they are threads of one process sharing its FileLock object or
\* runs of different processes contending on the lock file path.
SchedulerMutualExclusion == Cardinality(InSection) <= 1

\* The flock a run is about to ask for is held through a file object of
\* another process.
CannotAcquire(run) ==
  /\ sched.runs[run] = "opened"
  /\ sched.objs[ProcOf(run)].lock_file /= None
  /\ \E q \in SchedProcs \ {ProcOf(run)} :
       /\ sched.objs[q].lock_file /= None
       /\ Get(sched.objs[q].lock_file).locked
       /\ Get(sched.objs[q].lock_file).inode =
            Get(sched.objs[ProcOf(run)].lock_file).inode

\* C29: when a run of _run_task cannot acquire the task's lock, it returns
\* at once: it does not sleep, the task function is not called, no alert
\* is sent, last_run is not changed and nothing is raised.
FailedAcquisitionSkips ==
  [][ \A run \in SchedRuns :
        (CannotAcquire(run) /\ sched'.runs[run] /= sched.runs[run])
        => /\ sched'.runs[run] = "idle"
           /\ sched'.skipped = sched.skipped + 1
           /\ sched'.sleeps = sched.sleeps
           /\ sched'.invocations = sched.invocations
           /\ sched'.alerts = sched.alerts
           /\ sched'.last_run = sched.last_run
           /\ sched'.raised = sched.raised ]_vars

\* A run was skipped while a run of the other process is in the locked
\* section.
FailedAcquisitionSkipsWitness ==
  /\ sched.skipped = 1
  /\ sched.runs[3] = "locked"
  /\ sched.runs[1] = "idle" /\ sched.runs[2] = "idle"
  /\ sched.started = 2
  /\ sched.invocations = 0

\* C31: the status of a game row changes only from in-progress to
\* white_won, black_won or draw, in a make_move, and from another status
\* to in-progress, in an undo_move; a new row is in progress, no row is
\* ever abandoned and no step leads from one terminal status to another.
StatusTransitions ==
  [][ /\ \A i \in 1 .. Len(games) :
           i <= Len(games')
           => /\ games'[i].status /= ABANDONED
              /\ games'[i].status /= games[i].status
                 => \/ /\ games[i].status = IN_PROGRESS
                       /\ games'[i].status \in {WHITE_WON, BLACK_WON, DRAW}
                       /\ last'.op = "make_move"
                    \/ /\ games[i].status /= IN_PROGRESS
                       /\ games'[i].status = IN_PROGRESS
                       /\ last'.op = "undo_move"
      /\ \A i \in (Len(games) + 1) .. Len(games') :
           games'[i].status = IN_PROGRESS ]_vars

\* A game in progress was ended by the bot's reply to a move.
StatusTransitionsWitness ==
  /\ last.op = "make_move" /\ last.success /\ last.bot_move /= None
  /\ last.prior_status = IN_PROGRESS
  /\ HasRows(1) /\ GameRow(1).status = BLACK_WON
  /\ GameRow(1).ended_at /= None

\* C32: when no request is in the middle of executing, the status of the
\* game is terminal exactly when get_game_result reports a result on the
\* position rebuilt from the stored encoding, and the final record of a
\* terminal game lists exactly the moves of the stored log; also after two
\* requests were interleaved.
StatusAgreesWithPosition ==
  ( /\ \A r \in ConcRequests : reqs[r].stage = "idle"
    /\ HasRows(1) )
  => /\ (GameRow(1).status \in {WHITE_WON, BLACK_WON, DRAW})
          <=> (GetGameResult(ParseFen(FenOf(1))) /= None)
     /\ (GameRow(1).status \in {WHITE_WON, BLACK_WON, DRAW})
          => GameRow(1).pgn = Some(LogOf(1))

\* C33: a game against the bot that is in progress rests on white's turn:
\* outside a make_move the stored position of a game with no black player
\* and status in-progress has white to move.
BotGamesRestOnWhite ==
  ( /\ HasRows(1)
    /\ GameRow(1).black_player_id = None
    /\ GameRow(1).status = IN_PROGRESS )
  => ParseFen(FenOf(1)).turn = WHITE

\* C34: the player identity has no influence on make_move: a step that is
\* a make_move of a game and a move under one player id is, from the same
\* stored state and with the same engine answers, the make_move of that
\* game and move under every player id (absent included), with the same
\* returned result and the same stored state; no request is refused for
\* who submits it.
PlayerHasNoInfluence ==
  [][ last'.op = "make_move"
      => \A id \in GameIds, m \in MoveInputs :
           (last'.game_id = id /\ last'.move = m)
           => \A p \in PlayerInputs : MakeMove(id, m, p) ]_vars

\* A black ply was accepted in a game between the players 7 and 8: the
\* step is a make_move for every submitter, the white player and a
\* stranger included.
PlayerHasNoInfluenceWitness ==
  /\ last.op = "make_move" /\ last.success
  /\ HasRows(1)
  /\ GameRow(1).white_player_id = Some(7)
  /\ GameRow(1).black_player_id = Some(8)
  /\ Len(LogOf(1)) = 2
  /\ ParseFen(FenOf(1)).turn = WHITE

\* C35: undo removes exactly the requested number of entries: after every
\* undo_move that returns success, for any integer count, the stored log
\* is shorter than before by that count.
UndoRemovesExactly ==
  [][ (last'.op = "undo_move" /\ last'.success)
      => \A id \in GameIds :
           last'.game_id = id
           => Len(LogOf(id)') = Len(LogOf(id)) - last'.count ]_vars

\* C36: a failed acquire does not disturb the holder: when a thread is
\* between its acquire and its release of the task lock and the acquire of
\* another thread on the same FileLock object fails, the file handle of the
\* holder is still referenced by the object and still locked afterwards.
HolderUndisturbed ==
  [][ \A holder \in SchedRuns, other \in SchedRuns :
        ( /\ holder /= other
          /\ ProcOf(holder) = ProcOf(other)
          /\ sched.runs[holder] \in {"locked", "release"}
          /\ sched.runs[other] = "opened"
          /\ sched'.runs[other] = "idle"
          /\ sched'.skipped = sched.skipped + 1 )
        => /\ sched'.objs[ProcOf(holder)].lock_file /= None
           /\ Get(sched'.objs[ProcOf(holder)].lock_file).locked ]_vars

\* C37: the task lock is always released: every run of _run_task that
\* acquired the lock has released it when it returns, so once every run
\* has returned no FileLock object refers to a locked file or says that it
\* is locked.
TaskLockReleased ==
  (\A run \in SchedRuns : sched.runs[run] = "idle")
  => \A p \in SchedProcs :
       /\ ~sched.objs[p].is_locked
       /\ sched.objs[p].lock_file /= None
          => ~Get(sched.objs[p].lock_file).locked

\* ---------------------------------------------------------------------
\* The scheduler loop (Scheduler.__init__, register_task, _scheduler_loop).
\* The constructor starts the loop thread; tasks are registered by other
\* threads while it runs.  The loop walks the live task list by index, as
\* a Python for loop over a list does.  Time is kept per task as the
\* number of sleeps left until its next-run time: now >= next_run when
\* none is left.

MaxTasks == 2
MaxPeriod == 2

TaskNames == 1 .. MaxTasks

\* _calculate_next_run: the next time of the cron expression after now.
NextRunDelays == 1 .. MaxPeriod

\* Lines 57-64: the dict register_task appends.
NewTask(name, run_on_startup) ==
  [name |-> name, run_on_startup |-> run_on_startup, next_run |-> None,
   started |-> FALSE, dispatched |-> FALSE]

IsRegistered(name) ==
  \E i \in 1 .. Len(sched.tasks) : sched.tasks[i].name = name

RegisterTask(name, run_on_startup) ==
  /\ ~IsRegistered(name)
  /\ sched' = [sched EXCEPT !.tasks = Append(@, NewTask(name, run_on_startup))]
  /\ UNCHANGED <<games, sessions, last, pc, puzzles, user_puzzles, reqs>>

\* Lines 126-131: the start-up pass runs the tasks marked run_on_startup
\* in the loop thread.
LoopStartup ==
  /\ sched.stage = "startup"
  /\ sched' = IF ~sched.run_on_startup \/ sched.i > Len(sched.tasks)
                THEN [sched EXCEPT !.stage = "initial", !.i = 1]
              ELSE IF sched.tasks[sched.i].run_on_startup
                THEN [sched EXCEPT !.tasks[sched.i].started = TRUE,
                                   !.i = @ + 1]
              ELSE [sched EXCEPT !.i = @ + 1]
  /\ UNCHANGED <<games, sessions, last, pc, puzzles, user_puzzles, reqs>>

\* Lines 133-138: the initial next-run times, once, for the tasks in the
\* list at that time.
LoopInitial ==
  /\ sched.stage = "initial"
  /\ IF sched.i > Len(sched.tasks)
       THEN sched' = [sched EXCEPT !.stage = "check", !.i = 1]
       ELSE \E delay \in NextRunDelays :
              sched' = [sched EXCEPT !.tasks[sched.i].next_run = Some(delay),
                                     !.i = @ + 1]
  /\ UNCHANGED <<games, sessions, last, pc, puzzles, user_puzzles, reqs>>

\* Line 146: task["next_run"] and now >= task["next_run"]
Due(task) == task.next_run /= None /\ Get(task.next_run) = 0

\* Lines 145-163: a task that is due is started in a thread of its own and
\* gets its next next-run time.
LoopCheck ==
  /\ sched.stage = "check"
  /\ IF sched.i > Len(sched.tasks)
       THEN sched' = [sched EXCEPT !.stage = "sleep"]
     ELSE IF Due(sched.tasks[sched.i])
       THEN \E delay \in NextRunDelays :
              sched' = [sched EXCEPT !.tasks[sched.i].dispatched = TRUE,
                                     !.tasks[sched.i].next_run = Some(delay),
                                     !.i = @ + 1]
     ELSE sched' = [sched EXCEPT !.i = @ + 1]
  /\ UNCHANGED <<games, sessions, last, pc, puzzles, user_puzzles, reqs>>

\* Line 166: time.sleep(10); the next-run times come nearer.
LoopSleep ==
  /\ sched.stage = "sleep"
  /\ sched' = [sched EXCEPT
                 !.stage = "check", !.i = 1,
                 !.tasks = [k \in 1 .. Len(sched.tasks) |->
                              IF sched.tasks[k].next_run = None
                                   \/ Get(sched.tasks[k].next_run) = 0
                                THEN sched.tasks[k]
                                ELSE [sched.tasks[k] EXCEPT
                                        !.next_run = Some(Get(@) - 1)]]]
  /\ UNCHANGED <<games, sessions, last, pc, puzzles, user_puzzles, reqs>>

\* Scheduler() with scheduler.enabled: the loop thread is started by the
\* constructor, with no task registered.
InitLoop ==
  /\ games = <<>> /\ sessions = <<>>
  /\ last = Result("init", 0, "", 0, NoEngine, TRUE, "", None, None, 0)
  /\ pc = Idle
  /\ reqs = NoRequests
  /\ puzzles = <<>>
  /\ user_puzzles = <<>>
  /\ \E run_on_startup \in BOOLEAN :
       sched = [stage |-> "startup", i |-> 1,
                run_on_startup |-> run_on_startup, tasks |-> <<>>]

LoopStep == LoopStartup \/ LoopInitial \/ LoopCheck \/ LoopSleep

NextLoop ==
  \/ \E name \in TaskNames, run_on_startup \in BOOLEAN :
       RegisterTask(name, run_on_startup)
  \/ LoopStartup
  \/ LoopInitial
  \/ LoopCheck
  \/ LoopSleep

SpecLoop == InitLoop /\ [][NextLoop]_vars

\* The loop thread is never stopped and keeps running.
SpecLoopFair == SpecLoop /\ WF_vars(LoopStep)

\* C38: every registered task is eventually dispatched: while the loop
\* runs, a task registered through register_task, before or after the
\* loop computed the initial next-run times, gets a next-run time and is
\* started by the loop.
EveryTaskDispatched ==
  \A name \in TaskNames :
    IsRegistered(name)
    ~> \E i \in 1 .. Len(sched.tasks) :
         /\ sched.tasks[i].name = name
         /\ sched.tasks[i].next_run /= None
         /\ sched.tasks[i].dispatched

\* ---------------------------------------------------------------------
\* retry_on_failure (backend/app/utils/retry.py).  One call of a wrapped
\* function: pc holds the resolved parameters of the decorator and the
\* position of the wrapper.  Delays are counted in hundredths of a second;
\* random.random() is a number of tenths below one.

MaxAttemptsArg == 4

\* RetryConfig defaults (seconds).
InitialDelaySeconds == 1
MaxDelaySeconds == 60
ExponentialBase == 2
JitterDefault == TRUE

\* Hundredths of a second in a second.
Hundredths == 100

\* random.random(), in tenths.
RandomTenths == {0, 5, 9}

MaxAttemptsInputs == {None} \cup {Some(n) : n \in 0 .. MaxAttemptsArg}
InitialDelayInputs == {None, Some(0), Some(2)}
MaxDelayInputs == {None, Some(1), Some(3)}
ExponentialBaseInputs == {None, Some(3)}
JitterInputs == {None, Some(TRUE), Some(FALSE)}

\* value or default: None and 0 give the default.
OrDefault(value, default) ==
  IF value = None \/ Get(value) = 0 THEN default ELSE Get(value)

\* Lines 40-44.
RetryParameters(max_attempts, initial_delay, max_delay, exponential_base, jitter) ==
  [max_attempts |-> OrDefault(max_attempts, MaxAttempts),
   initial_delay |-> OrDefault(initial_delay, InitialDelaySeconds) * Hundredths,
   max_delay |-> OrDefault(max_delay, MaxDelaySeconds) * Hundredths,
   exponential_base |-> OrDefault(exponential_base, ExponentialBase),
   jitter |-> IF jitter = None THEN JitterDefault ELSE Get(jitter)]

RECURSIVE Power(_, _)
Power(base, n) == IF n = 0 THEN 1 ELSE base * Power(base, n - 1)

Min(a, b) == IF a <= b THEN a ELSE b

\* Lines 65-66: the backoff delay after the failure of an attempt.
BackoffDelay(call, attempt) ==
  Min(call.initial_delay * Power(call.exponential_base, attempt - 1),
      call.max_delay)

\* Lines 69-71: delay += delay * 0.1 * random.random() when jitter is on.
SleepDelay(call, attempt, tenths) ==
  IF call.jitter
    THEN BackoffDelay(call, attempt)
           + (BackoffDelay(call, attempt) * tenths) \div Hundredths
    ELSE BackoffDelay(call, attempt)

\* What an invocation of the wrapped function does: it returns, raises an
\* exception of a listed type, or raises another exception.
Outcomes == {"ok", "listed", "unlisted"}

\* (variant: every exception is caught and retried)
CaughtAny(outcome) == outcome /= "ok"

\* Line 54: except exceptions as e
Caught(outcome) == outcome = "listed"

\* Lines 51-78: one pass of the loop.  The function is invoked; its result
\* is returned; an exception that is not listed propagates; a listed one is
\* raised again at the last attempt and is otherwise followed by the sleep.
RetryAttempt(outcome, tenths) ==
  /\ pc.stage = "running"
  /\ pc.attempt <= pc.max_attempts
  /\ LET outcomes == Append(pc.outcomes, outcome)
     IN pc' = IF outcome = "ok"
                THEN [pc EXCEPT !.outcomes = outcomes, !.stage = "returned",
                                !.result = Some(pc.attempt)]
              ELSE IF ~Caught(outcome)
                THEN [pc EXCEPT !.outcomes = outcomes, !.stage = "raised",
                                !.exception = Some(pc.attempt)]
              ELSE IF pc.attempt = pc.max_attempts
                THEN [pc EXCEPT !.outcomes = outcomes, !.stage = "raised",
                                !.exception = Some(pc.attempt)]
              ELSE [pc EXCEPT !.outcomes = outcomes,
                              !.slept = Some(SleepDelay(pc, pc.attempt, tenths)),
                              !.attempt = @ + 1]
  /\ UNCHANGED <<games, sessions, last, puzzles, user_puzzles, reqs, sched>>

\* A call of a function wrapped by retry_on_failure(...).
InitRetry ==
  /\ games = <<>> /\ sessions = <<>>
  /\ last = Result("init", 0, "", 0, NoEngine, TRUE, "", None, None, 0)
  /\ reqs = NoRequests /\ sched = NoScheduler
  /\ puzzles = <<>>
  /\ user_puzzles = <<>>
  /\ \E max_attempts \in MaxAttemptsInputs, initial_delay \in InitialDelayInputs,
        max_delay \in MaxDelayInputs, exponential_base \in ExponentialBaseInputs,
        jitter \in JitterInputs :
       pc = RetryParameters(max_attempts, initial_delay, max_delay,
                            exponential_base, jitter)
            @@ [stage |-> "running", attempt |-> 1, outcomes |-> <<>>,
                slept |-> None, result |-> None, exception |-> None]

NextRetry ==
  \E outcome \in Outcomes, tenths \in RandomTenths :
    RetryAttempt(outcome, tenths)

SpecRetry == InitRetry /\ [][NextRetry]_vars

\* C39: bounded retry: the wrapped function is invoked at most
\* max_attempts times per call; an invocation that returns or raises an
\* exception that is not listed is the last one; the wrapper returns the
\* result of the first invocation that succeeds, raises the exception of
\* the last invocation after max_attempts listed failures, and lets an
\* exception that is not listed through at the invocation that raised it.
BoundedRetry ==
  LET n == Len(pc.outcomes)
  IN /\ n <= pc.max_attempts
     /\ \A i \in 1 .. (n - 1) : pc.outcomes[i] = "listed"
     /\ pc.stage = "returned"
          <=> (n > 0 /\ pc.outcomes[n] = "ok")
     /\ pc.stage = "returned" => pc.result = Some(n)
     /\ pc.stage = "raised"
          <=> \/ n > 0 /\ pc.outcomes[n] = "unlisted"
              \/ n = pc.max_attempts /\ pc.outcomes[n] = "listed"
     /\ pc.stage = "raised" => pc.exception = Some(n)

\* Every one of four invocations failed with a listed exception and the
\* last exception was raised.
BoundedRetryWitness ==
  /\ pc.stage = "raised"
  /\ pc.max_attempts = 4
  /\ Len(pc.outcomes) = 4
  /\ pc.outcomes[4] = "listed"
  /\ pc.exception = Some(4)

\* C40: the delay slept between two attempts never exceeds max_delay.
RetryDelayCap ==
  pc.slept /= None => Get(pc.slept) <= pc.max_delay

====
